---- MODULE Spec2Model ----
(***************************************************************************)
(* Spendito: rule-based categorizer with learning, cross-account duplicate *)
(* and transfer linker, transaction store and year aggregator.             *)
(*                                                                         *)
(* Representation of numbers:                                              *)
(*   amounts      integer cents           (45.99 EUR = 4599)               *)
(*   rule ranges  integer EUR             (minAmount / maxAmount)          *)
(*   confidence   integer 1/200ths        (0.1 = 20, 0.99 = 198, 1.0 = 200)*)
(*   match score  integer hundredths      (findDuplicates, 0.7 = 70)       *)
(*   dates        integer days since 1 January 2024                        *)
(* Sums of amounts are exact decimal sums.  Where the IEEE arithmetic of   *)
(* the program decides a comparison or a rounding differently from the     *)
(* decimal one, the definition says so and follows the program.            *)
(* Strings are TLA+ strings, inspected character by character.             *)
(* The cloud backup is not configured (isSupabaseConfigured is false), so  *)
(* syncWithSupabase and pushToSupabase fail inside their try blocks and    *)
(* leave the store as it is.                                               *)
(***************************************************************************)
EXTENDS Integers, Sequences, FiniteSets, TLC

VARIABLES
    rules,          \* CategorizationService.rules
    transactions,   \* StorageService.transactions (or the list under test)
    op,             \* name of the last operation performed
    input,          \* argument of the last operation
    output,         \* value returned by the last operation
    steps,          \* number of operations performed so far
    asyncStorage,   \* AsyncStorage: what the device holds under the services' keys
    pending,        \* AsyncStorage.setItem calls that have not settled yet
    supabase,       \* the rows of the remote transactions table
    running         \* handlers that have started and not returned, at their awaits

vars == <<rules, transactions, op, input, output, steps, asyncStorage, pending,
          supabase, running>>

\* The device store, the remote table and the handlers under way are followed by
\* SpecPersist, SpecRemote and SpecOverlap.  The other specifications follow the
\* services' memory alone, with no user id on the device (so nothing is pushed to
\* or read from the remote table) and one handler at a time.
surroundings == <<asyncStorage, pending, supabase, running>>
surroundingsAtStart ==
    /\ asyncStorage = [rules |-> <<>>, transactions |-> <<>>, userId |-> ""]
    /\ pending = <<>>
    /\ supabase = <<>>
    /\ running = <<>>

(***************************************************************************)
(* Strings                                                                 *)
(***************************************************************************)
Char(s, i) == SubSeq(s, i, i)

UpperChars == "ABCDEFGHIJKLMNOPQRSTUVWXYZÄÖÜ"
LowerChars == "abcdefghijklmnopqrstuvwxyzäöü"

\* String.prototype.toLowerCase on one character
toLowerChar(c) ==
    IF \E i \in 1..Len(UpperChars) : Char(UpperChars, i) = c
    THEN Char(LowerChars, CHOOSE i \in 1..Len(UpperChars) : Char(UpperChars, i) = c)
    ELSE c

\* Strings are mapped and filtered by halves, which keeps the evaluation shallow.
RECURSIVE toLowerCase(_)
toLowerCase(s) ==
    IF Len(s) = 0 THEN ""
    ELSE IF Len(s) = 1 THEN toLowerChar(s)
    ELSE toLowerCase(SubSeq(s, 1, Len(s) \div 2))
         \o toLowerCase(SubSeq(s, Len(s) \div 2 + 1, Len(s)))

\* String.prototype.includes
includes(s, sub) ==
    \E i \in 1..(Len(s) - Len(sub) + 1) : SubSeq(s, i, i + Len(sub) - 1) = sub

\* /\s/ restricted to the blank, the only white space of the modelled texts
isSpace(c) == c = " "

\* The pieces of s between the positions in seps, in order, from position from on
RECURSIVE pieces(_, _, _)
pieces(s, seps, from) ==
    LET later == {i \in seps : i >= from}
    IN  IF later = {} THEN <<SubSeq(s, from, Len(s))>>
        ELSE LET next == CHOOSE i \in later : \A j \in later : i <= j
             IN  <<SubSeq(s, from, next - 1)>> \o pieces(s, seps, next + 1)

\* s.split(/\s+/) without the empty pieces
splitWords(s) ==
    SelectSeq(pieces(s, {i \in 1..Len(s) : isSpace(Char(s, i))}, 1),
              LAMBDA w : w /= "")

\* The alternatives of a regular expression: its pieces between unescaped '|'
splitAlternatives(p) ==
    pieces(p, {i \in 1..Len(p) : Char(p, i) = "|" /\ (i = 1 \/ Char(p, i - 1) /= "\\")}, 1)

(***************************************************************************)
(* Regular expressions: literals, '.', escapes, and the postfix            *)
(* quantifiers '?' and '*', matched case-insensitively (flag i), which is  *)
(* the fragment used by every pattern of the program.                      *)
(***************************************************************************)
atomWidth(alt, p) == IF Char(alt, p) = "\\" THEN 2 ELSE 1

atomMatches(alt, p, c) ==
    IF Char(alt, p) = "\\" THEN toLowerChar(Char(alt, p + 1)) = toLowerChar(c)
    ELSE IF Char(alt, p) = "." THEN TRUE
    ELSE toLowerChar(Char(alt, p)) = toLowerChar(c)

RECURSIVE matchHere(_, _, _, _)
matchHere(alt, p, s, i) ==
    IF p > Len(alt) THEN TRUE
    ELSE LET w == atomWidth(alt, p)
             q == IF p + w <= Len(alt) THEN Char(alt, p + w) ELSE ""
             hit == i <= Len(s) /\ atomMatches(alt, p, Char(s, i))
         IN  IF q = "*"
             THEN matchHere(alt, p + w + 1, s, i) \/ (hit /\ matchHere(alt, p, s, i + 1))
             ELSE IF q = "?"
             THEN matchHere(alt, p + w + 1, s, i) \/ (hit /\ matchHere(alt, p + w + 1, s, i + 1))
             ELSE hit /\ matchHere(alt, p + w, s, i + 1)

\* new RegExp(pattern, 'i').test(s)
regexTest(pattern, s) ==
    LET alts == splitAlternatives(pattern)
    IN  \E a \in 1..Len(alts) : \E i \in 1..(Len(s) + 1) : matchHere(alts[a], 1, s, i)

\* The character of pattern at i is escaped: an odd number of backslashes precedes it
escapedAt(pattern, i) ==
    LET others == {j \in 1..(i - 1) : Char(pattern, j) /= "\\"}
        last == IF others = {} THEN 0 ELSE CHOOSE j \in others : \A k \in others : k <= j
    IN  (i - 1 - last) % 2 = 1

\* the positions of pattern that hold one of the characters of chars unescaped
syntaxAt(pattern, chars) ==
    {i \in 1..Len(pattern) :
        /\ \E k \in 1..Len(chars) : Char(chars, k) = Char(pattern, i)
        /\ ~escapedAt(pattern, i)}

\* new RegExp(pattern, 'i') returns: FALSE where it throws a SyntaxError, which it does
\* for a group that is not closed or not opened, a character class that is not closed,
\* a quantifier with nothing to repeat, and a backslash at the end of the pattern.
isValidRegExp(pattern) ==
    LET opened == syntaxAt(pattern, "(")
        closed == syntaxAt(pattern, ")")
        quantifiers == syntaxAt(pattern, "*+?")
    IN  /\ Cardinality(opened) = Cardinality(closed)
        /\ \A i \in closed : Cardinality({j \in opened : j < i})
                                >= Cardinality({j \in closed : j <= i})
        /\ \A i \in syntaxAt(pattern, "[") : \E j \in syntaxAt(pattern, "]") : j > i
        /\ \A i \in quantifiers :
                /\ i > 1
                /\ (i - 1) \notin syntaxAt(pattern, "|(")
                /\ (i - 1) \in quantifiers
                        => (Char(pattern, i) = "?" /\ (i - 2) \notin quantifiers)
        /\ ~(Len(pattern) > 0 /\ Char(pattern, Len(pattern)) = "\\"
                              /\ ~escapedAt(pattern, Len(pattern)))

Range(seq) == {seq[i] : i \in 1..Len(seq)}

abs(n) == IF n < 0 THEN -n ELSE n
min(a, b) == IF a < b THEN a ELSE b
max(a, b) == IF a > b THEN a ELSE b

\* An optional number (minAmount?: number) is <<>> when undefined, <<n>> otherwise.
isDefined(opt) == opt /= <<>>
\* JavaScript truthiness of an optional number
isTruthy(opt) == opt /= <<>> /\ opt[1] /= 0

(***************************************************************************)
(* Texts and patterns of the model.  Every text a transaction or a         *)
(* categorize call may carry is drawn from Texts, so the string functions  *)
(* are evaluated once per text and kept as tables.                         *)
(***************************************************************************)
Descriptions ==
    {"Schutzgebühr Luna", "Schutzgebühr Rocky", "PayPal Guthaben Transfer",
     "Zooplus Bestellung"}

\* descriptions and counterparties of the transactions of the model
TransactionTexts ==
    {"Zooplus Bestellung", "PAYPAL *ZOOPLUS", "PayPal Guthaben Transfer",
     "PayPal Europe Lastschrift", "Spende Tierheim",
     "Zooplus AG", "PayPal Europe S.a.r.l.", "PayPal", "Unbekannt", ""}

\* descriptions of protection fees, one of them with the fee as its fourth keyword,
\* one of them of a transfer
FeeTexts ==
    {"Schutzgebühr Luna", "Schutzgebühr Rocky", "Hund Luna Bella Schutzgebühr",
     "Umbuchung Schutzgebühr"}

Texts == Descriptions \cup TransactionTexts \cup FeeTexts

lowerCaseOf == [t \in Texts |-> toLowerCase(t)]

\* the texts as the program hands them to a regular expression: raw or lower-cased
SubjectTexts == Texts \cup {lowerCaseOf[t] : t \in Texts}

(***************************************************************************)
(* Categories                                                              *)
(***************************************************************************)
INCOME_CATEGORIES == <<"donation", "protection_fee", "membership", "other_income">>
EXPENSE_CATEGORIES ==
    <<"veterinary", "foster_care", "transport", "administration", "other_expense">>
TRANSFER_CATEGORIES == <<"transfer">>

(***************************************************************************)
(* CategorizationService                                                   *)
(***************************************************************************)
defaultRule(pattern, category, priority) ==
    [pattern |-> pattern, category |-> category, priority |-> priority,
     isUserDefined |-> FALSE]

DEFAULT_RULES == <<
    defaultRule("guthaben.?transfer|umbuchung|übertrag|transfer zwischen|eigenes konto",
                "transfer", 150),
    defaultRule("paypal.*einzahlung|einzahlung.*paypal|paypal.*auszahlung|auszahlung.*paypal",
                "transfer", 150),
    defaultRule("paypal guthaben|paypal-guthaben|guthaben paypal", "transfer", 150),
    defaultRule("spende|donation|geschenk", "donation", 100),
    defaultRule("schutzgebühr|schutzgeb|adoption", "protection_fee", 100),
    defaultRule("mitglied|beitrag|membership", "membership", 100),
    defaultRule("tierarzt|tierärzt|vet|tierklinik|tiermedizin|impf|kastration|sterilisation|medikament",
                "veterinary", 100),
    defaultRule("pflegestelle|pflege|unterbringung|pension|foster|futter|fressnapf|zooplus",
                "foster_care", 100),
    defaultRule("transport|fahrt|benzin|tankstelle|flug|fähre|reise", "transport", 100),
    defaultRule("büro|porto|druck|verwaltung|versicherung|bank|gebühr|steuer",
                "administration", 90) >>

\* The rule store after initialize() without stored rules, and after resetToDefaults()
seededRules ==
    [i \in 1..Len(DEFAULT_RULES) |->
        [id |-> <<"default", i - 1>>,
         pattern |-> DEFAULT_RULES[i].pattern,
         category |-> DEFAULT_RULES[i].category,
         priority |-> DEFAULT_RULES[i].priority,
         isUserDefined |-> DEFAULT_RULES[i].isUserDefined,
         matchCount |-> 0,
         minAmount |-> <<>>,
         maxAmount |-> <<>>]]

\* description.toLowerCase().replace(/[^a-zäöüß\s]/g, '')
keepChar(c) ==
    \/ isSpace(c)
    \/ c = "ß"
    \/ \E i \in 1..Len(LowerChars) : Char(LowerChars, i) = c

RECURSIVE stripNonLetters(_)
stripNonLetters(s) ==
    IF Len(s) = 0 THEN ""
    ELSE IF Len(s) = 1 THEN (IF keepChar(s) THEN s ELSE "")
    ELSE stripNonLetters(SubSeq(s, 1, Len(s) \div 2))
         \o stripNonLetters(SubSeq(s, Len(s) \div 2 + 1, Len(s)))

keywords(description) ==
    SelectSeq(splitWords(stripNonLetters(toLowerCase(description))),
              LAMBDA w : Len(w) > 3)

RECURSIVE join(_, _)
join(ws, sep) ==
    IF Len(ws) = 0 THEN ""
    ELSE IF Len(ws) = 1 THEN ws[1]
    ELSE ws[1] \o sep \o join(Tail(ws), sep)

learnedPattern(words) ==
    IF Len(words) > 0 THEN join(SubSeq(words, 1, min(3, Len(words))), "|") ELSE ".*"

keywordsOf == [t \in Texts |-> keywords(t)]

\* The patterns addRule is given in the model: one that compiles, one with a group
\* left open, one with a character class left open, one that starts with a quantifier
AddedPatterns == {"bestellung", "zooplus(", "[schutz", "*transfer"}

\* Every pattern a rule of the model can carry: the seeded ones, the learned ones and
\* the added ones
RulePatterns ==
    {DEFAULT_RULES[i].pattern : i \in 1..Len(DEFAULT_RULES)}
    \cup {learnedPattern(keywordsOf[t]) : t \in Texts}
    \cup AddedPatterns

\* new RegExp(pattern, 'i').test(text), tabulated
PAYPAL_PATTERNS == <<"paypal", "pp\\.", "pp\\*", "paypal \\*">>
PAYPAL_TRANSFER_PATTERNS ==
    <<"paypal.*guthaben", "paypal.*einzahlung", "paypal.*überweisung",
      "paypal.*lastschrift", "paypal europe">>
PAYPAL_GUTHABEN_TRANSFER_PATTERNS ==
    <<"guthaben.?transfer", "bank.?transfer", "guthaben.*paypal", "paypal.*guthaben">>

Patterns ==
    RulePatterns \cup Range(PAYPAL_PATTERNS) \cup Range(PAYPAL_TRANSFER_PATTERNS)
    \cup Range(PAYPAL_GUTHABEN_TRANSFER_PATTERNS)

validPatterns == {p \in Patterns : isValidRegExp(p)}
matchingTexts == [p \in validPatterns |-> {t \in SubjectTexts : regexTest(p, t)}]

\* p.test(text) for a pattern compiled with the flag i
test(p, text) == text \in matchingTexts[p]

\* pattern.includes(word), tabulated
includedWords ==
    [p \in RulePatterns |->
        {w \in UNION {Range(keywordsOf[t]) : t \in Texts} : includes(p, w)}]

\* [...rules].sort((a, b) => b.priority - a.priority): the indices of the rules in
\* descending priority, equal priorities in store order (the sort is stable).
RECURSIVE sortByPriority(_, _)
sortByPriority(rs, left) ==
    IF left = {} THEN <<>>
    ELSE LET first == CHOOSE i \in left :
                        \A j \in left : rs[j].priority < rs[i].priority
                                        \/ (rs[j].priority = rs[i].priority /\ i <= j)
         IN  <<first>> \o sortByPriority(rs, left \ {first})

\* the rules in store order, as without the sort
unsortedRules(rs) == [i \in 1..Len(rs) |-> i]

sortedRules(rs) == sortByPriority(rs, DOMAIN rs)

\* 0.5 + matchCount * 0.05 + priority / 200, without the ceiling
ruleConfidenceUncapped(matchCount, priority) == 100 + matchCount * 10 + priority

\* Math.min(0.5 + matchCount * 0.05 + priority / 200, 0.99)
ruleConfidence(matchCount, priority) == min(100 + matchCount * 10 + priority, 198)

\* The body of the loop without the early return for the transfer categories
ruleAppliesByTypeAndRange(rule, description, amount) ==
    /\ rule.pattern \in validPatterns
    /\ test(rule.pattern, lowerCaseOf[description])
    /\ (amount < 0) = (rule.category \in Range(EXPENSE_CATEGORIES))
    /\ ~(isDefined(rule.minAmount) /\ abs(amount) < rule.minAmount[1] * 100)
    /\ ~(isDefined(rule.maxAmount) /\ abs(amount) > rule.maxAmount[1] * 100)

\* The body of the loop with a pattern that does not compile taken as one that matches
ruleAppliesOnBrokenPattern(rule, description, amount) ==
    /\ rule.pattern \in validPatterns => test(rule.pattern, lowerCaseOf[description])
    /\ \/ rule.category \in Range(TRANSFER_CATEGORIES)
       \/ /\ (amount < 0) = (rule.category \in Range(EXPENSE_CATEGORIES))
          /\ ~(isDefined(rule.minAmount) /\ abs(amount) < rule.minAmount[1] * 100)
          /\ ~(isDefined(rule.maxAmount) /\ abs(amount) > rule.maxAmount[1] * 100)

\* The body of the loop of categorize for one rule: TRUE when the rule returns.  A
\* pattern new RegExp throws on is caught and the loop goes on to the next rule.
ruleApplies(rule, description, amount) ==
    /\ rule.pattern \in validPatterns
    /\ test(rule.pattern, lowerCaseOf[description])
    /\ \/ rule.category \in Range(TRANSFER_CATEGORIES)
       \/ /\ (amount < 0) = (rule.category \in Range(EXPENSE_CATEGORIES))
          /\ ~(isDefined(rule.minAmount) /\ abs(amount) < rule.minAmount[1] * 100)
          /\ ~(isDefined(rule.maxAmount) /\ abs(amount) > rule.maxAmount[1] * 100)

\* The index of the rule categorize returns on, 0 when it falls through.
RECURSIVE firstApplying(_, _, _, _, _)
firstApplying(rs, order, k, description, amount) ==
    IF k > Len(order) THEN 0
    ELSE IF ruleApplies(rs[order[k]], description, amount) THEN order[k]
    ELSE firstApplying(rs, order, k + 1, description, amount)

selectedRule(rs, description, amount) ==
    firstApplying(rs, sortedRules(rs), 1, description, amount)

\* categorize(description, amount): the result and the rule store it leaves
categorize(rs, description, amount) ==
    LET returned(i) ==
            IF i = 0
            THEN [category |-> IF amount < 0 THEN "other_expense" ELSE "other_income",
                  confidence |-> 20,
                  rule |-> 0,
                  rules |-> rs]
            ELSE [category |-> rs[i].category,
                  confidence |-> ruleConfidence(rs[i].matchCount + 1, rs[i].priority),
                  rule |-> i,
                  rules |-> [rs EXCEPT ![i].matchCount = @ + 1]]
    IN  returned(selectedRule(rs, description, amount))

\* Math.floor(absAmount * 0.9), absAmount in cents
floorNineTenths(cents) == (cents * 9) \div 1000

\* The amounts of the model whose IEEE product with 1.1 lies just above the decimal
\* one, which is an integer: 200 * 1.1 evaluates to 220.00000000000003.
ElevenTenthsAbove == {5000, 20000, 40000}

\* Math.ceil(absAmount * 1.1), absAmount in cents
ceilElevenTenths(cents) ==
    -((-(cents * 11)) \div 1000) + (IF cents \in ElevenTenthsAbove THEN 1 ELSE 0)

\* minAmt / maxAmt without the special case for protection fees
amountBandOfTenPercent(correctCategory, amount) ==
    IF ~isDefined(amount) THEN [minAmt |-> <<>>, maxAmt |-> <<>>]
    ELSE [minAmt |-> <<floorNineTenths(abs(amount[1]))>>,
          maxAmt |-> <<ceilElevenTenths(abs(amount[1]))>>]

\* minAmt / maxAmt of learnFromCorrection
amountBand(correctCategory, amount) ==
    IF ~isDefined(amount) THEN [minAmt |-> <<>>, maxAmt |-> <<>>]
    ELSE LET absAmount == abs(amount[1])
         IN  IF correctCategory = "protection_fee"
                /\ absAmount >= 40000 /\ absAmount <= 60000
             THEN [minAmt |-> <<400>>, maxAmt |-> <<600>>]
             ELSE [minAmt |-> <<floorNineTenths(absAmount)>>,
                   maxAmt |-> <<ceilElevenTenths(absAmount)>>]

\* this.rules.find(...) of learnFromCorrection: index of the similar rule, 0 if none
existingRule(rs, words, correctCategory, amount) ==
    LET similar(r) ==
            /\ r.category = correctCategory
            /\ \/ \E k \in 1..Len(words) : words[k] \in includedWords[r.pattern]
               \/ (isDefined(amount) /\ isDefined(r.minAmount))
        hits == {i \in DOMAIN rs : similar(rs[i])}
    IN  IF hits = {} THEN 0 ELSE CHOOSE i \in hits : \A j \in hits : i <= j

\* addRule(pattern, category, isUserDefined, minAmount, maxAmount)
addRule(rs, pattern, category, isUserDefined, minAmount, maxAmount) ==
    Append(rs, [id |-> <<"rule", Len(rs)>>,
                pattern |-> pattern,
                category |-> category,
                priority |-> IF isUserDefined THEN 150 ELSE 100,
                isUserDefined |-> isUserDefined,
                matchCount |-> 0,
                minAmount |-> minAmount,
                maxAmount |-> maxAmount])

\* The boosted rule of learnFromCorrection
boostRule(r, amount, band) ==
    [r EXCEPT
        !.priority = @ + 10,
        !.matchCount = @ + 1,
        !.minAmount = IF ~isDefined(amount) THEN @
                      ELSE IF isTruthy(@) THEN <<min(@[1], band.minAmt[1])>>
                      ELSE band.minAmt,
        !.maxAmount = IF ~isDefined(amount) THEN @
                      ELSE IF isTruthy(@) THEN <<max(@[1], band.maxAmt[1])>>
                      ELSE band.maxAmt]

\* learnFromCorrection(description, correctCategory, amount?): the rule store it leaves
learnFromCorrection(rs, description, correctCategory, amount) ==
    LET words == keywordsOf[description]
        band == amountBand(correctCategory, amount)
        e == existingRule(rs, words, correctCategory, amount)
    IN  IF Len(words) = 0 /\ ~isDefined(amount) THEN rs
        ELSE IF e /= 0 THEN [rs EXCEPT ![e] = boostRule(@, amount, band)]
        ELSE addRule(rs, learnedPattern(words), correctCategory, TRUE,
                     band.minAmt, band.maxAmt)

(***************************************************************************)
(* Transactions                                                            *)
(* Optional strings are "" when undefined, optional flags FALSE.           *)
(***************************************************************************)
Transaction(id, sourceAccount, date, amount, type, category, description, counterparty, confidence, externalId) ==
    [id |-> id, sourceAccount |-> sourceAccount, date |-> date, amount |-> amount,
     type |-> type, category |-> category, description |-> description,
     counterparty |-> counterparty, confidence |-> confidence,
     externalId |-> externalId,
     isManuallyCategized |-> FALSE, isUserConfirmed |-> FALSE,
     isDuplicate |-> FALSE, duplicateReason |-> "", linkedTransactionId |-> "",
     isGuthabenTransfer |-> FALSE, linkedPaymentId |-> "",
     originalPaymentInfo |-> <<>>]

\* array.findIndex(t => t.id === id): 0 when absent
findIndex(list, id) ==
    IF \E i \in 1..Len(list) : list[i].id = id
    THEN CHOOSE i \in 1..Len(list) : list[i].id = id /\ \A j \in 1..(i - 1) : list[j].id /= id
    ELSE 0

(***************************************************************************)
(* DuplicateDetectionService                                               *)
(***************************************************************************)
timeWindowDays == 5
amountTolerance == 1      \* 0.01 EUR, in cents
highConfidence == 90      \* 0.9, in hundredths
mediumConfidence == 70    \* 0.7, in hundredths

\* Math.abs(Math.abs(a) - Math.abs(b)) in cents, doubled, and moved by one where the
\* IEEE difference of the two EUR amounts falls short of (-1) or exceeds (+1) the
\* decimal one: 46.00 - 45.99 evaluates to 0.00999999999999801.
amountDiff(a, b) ==
    LET d == abs(abs(a) - abs(b))
    IN  IF {abs(a), abs(b)} = {4599, 4600} THEN 2 * d - 1 ELSE 2 * d

\* the words of calculateSimilarity: split(/\s+/) of the lower-cased text, longer than 2
similarityWords == [t \in Texts |-> {w \in Range(splitWords(lowerCaseOf[t])) : Len(w) > 2}]

\* calculateSimilarity(str1, str2) > 0.5
similar(d1, d2) ==
    LET words1 == similarityWords[d1]
        words2 == similarityWords[d2]
    IN  /\ words1 /= {} /\ words2 /= {}
        /\ 2 * Cardinality(words1 \cap words2) > Cardinality(words1 \cup words2)

\* The sum of the awarded scores as the program's arithmetic yields it, in hundredths:
\* 0.4 + 0.3 + 0.2 evaluates to 0.8999999999999999, which is held as 89.
scoreSum(amountScore, dateScore, patternScore, similarityScore) ==
    IF amountScore = 40 /\ dateScore = 30 /\ patternScore = 0 /\ similarityScore = 20
    THEN 89
    ELSE amountScore + dateScore + patternScore + similarityScore

reasonText(amountScore, dateScore, patternScore, similarityScore) ==
    join(SelectSeq(<<IF amountScore > 0 THEN "Gleicher Betrag" ELSE "",
                     IF dateScore = 30 THEN "Gleicher Tag"
                     ELSE IF dateScore = 20 THEN "Innerhalb 3 Tagen"
                     ELSE "Innerhalb 5 Tagen",
                     IF patternScore > 0 THEN "PayPal-Muster in Volksbank" ELSE "",
                     IF similarityScore > 0 THEN "Ähnliche Beschreibung" ELSE "">>,
                   LAMBDA r : r /= ""), ", ")

\* the early returns of checkDuplicate, without the type comparison
earlyRejectIgnoringType(tx1, tx2) ==
    \/ tx1.sourceAccount = tx2.sourceAccount
    \/ abs(tx1.date - tx2.date) > timeWindowDays
    \/ amountDiff(tx1.amount, tx2.amount) > 2 * amountTolerance

\* the early returns of checkDuplicate: same account, other type, outside the time
\* window, amounts apart
earlyReject(tx1, tx2) ==
    \/ tx1.sourceAccount = tx2.sourceAccount
    \/ tx1.type /= tx2.type
    \/ abs(tx1.date - tx2.date) > timeWindowDays
    \/ amountDiff(tx1.amount, tx2.amount) > 2 * amountTolerance

\* checkDuplicate(tx1, tx2): <<>> for null, <<match>> otherwise
checkDuplicate(tx1, tx2) ==
    LET daysDiff == abs(tx1.date - tx2.date)
        diff == amountDiff(tx1.amount, tx2.amount)
        volksbankTx == IF tx1.sourceAccount = "volksbank" THEN tx1 ELSE tx2
        amountScore == IF diff < 2 * amountTolerance THEN 40 ELSE 0
        dateScore == IF daysDiff < 1 THEN 30 ELSE IF daysDiff < 3 THEN 20 ELSE 10
        patternScore ==
            IF \E k \in 1..Len(PAYPAL_PATTERNS) :
                    test(PAYPAL_PATTERNS[k], volksbankTx.description)
            THEN 30 ELSE 0
        similarityScore == IF similar(tx1.description, tx2.description) THEN 20 ELSE 0
        confidence == scoreSum(amountScore, dateScore, patternScore, similarityScore)
    IN  IF earlyReject(tx1, tx2) THEN <<>>
        ELSE IF confidence < mediumConfidence THEN <<>>
        ELSE <<[transaction1 |-> tx1, transaction2 |-> tx2,
                confidence |-> min(confidence, 100),
                reason |-> reasonText(amountScore, dateScore, patternScore,
                                      similarityScore)]>>

RECURSIVE concat(_)
concat(seqs) == IF Len(seqs) = 0 THEN <<>> ELSE seqs[1] \o concat(Tail(seqs))

\* findDuplicates(transactions): the matches, PayPal-major in list order
findDuplicates(list) ==
    LET volksbankTx == SelectSeq(list, LAMBDA t : t.sourceAccount = "volksbank")
        paypalTx == SelectSeq(list, LAMBDA t : t.sourceAccount = "paypal")
    IN  concat([i \in 1..Len(paypalTx) |->
            concat([j \in 1..Len(volksbankTx) |->
                checkDuplicate(paypalTx[i], volksbankTx[j])])])

isPayPalTransfer(t) ==
    /\ t.sourceAccount = "volksbank"
    /\ \E k \in 1..Len(PAYPAL_TRANSFER_PATTERNS) :
            test(PAYPAL_TRANSFER_PATTERNS[k], t.description)

isPayPalGuthabenTransfer(t) ==
    /\ t.sourceAccount = "paypal"
    /\ \E k \in 1..Len(PAYPAL_GUTHABEN_TRANSFER_PATTERNS) :
            \/ test(PAYPAL_GUTHABEN_TRANSFER_PATTERNS[k], t.description)
            \/ test(PAYPAL_GUTHABEN_TRANSFER_PATTERNS[k], t.counterparty)

\* realPayments.find(...) that looks at the dates only
matchingPaymentByDate(transfer, realPayments) ==
    LET fits(payment) == abs(transfer.date - payment.date) <= 1
        hits == {i \in 1..Len(realPayments) : fits(realPayments[i])}
    IN  IF hits = {} THEN <<>>
        ELSE <<realPayments[CHOOSE i \in hits : \A j \in hits : i <= j]>>

\* realPayments.find(...) of linkGuthabenTransfersToPayments: <<>> or <<payment>>
matchingPayment(transfer, realPayments) ==
    LET fits(payment) ==
            /\ amountDiff(transfer.amount, payment.amount) < 2
            /\ abs(transfer.date - payment.date) <= 1
        hits == {i \in 1..Len(realPayments) : fits(realPayments[i])}
    IN  IF hits = {} THEN <<>>
        ELSE <<realPayments[CHOOSE i \in hits : \A j \in hits : i <= j]>>

\* one iteration of the loop over guthabenTransfers
linkTransfer(updated, transfer, realPayments) ==
    LET transferIdx == findIndex(updated, transfer.id)
        found == matchingPayment(transfer, realPayments)
    IN  IF transferIdx = 0 THEN updated
        ELSE IF found /= <<>>
        THEN [updated EXCEPT ![transferIdx] =
                [@ EXCEPT !.isDuplicate = TRUE,
                          !.isGuthabenTransfer = TRUE,
                          !.linkedPaymentId = found[1].id,
                          !.duplicateReason = "Guthaben-Transfer für: "
                                              \o found[1].description,
                          !.originalPaymentInfo =
                              <<[description |-> found[1].description,
                                 counterparty |-> found[1].counterparty,
                                 category |-> found[1].category]>>]]
        ELSE [updated EXCEPT ![transferIdx] =
                [@ EXCEPT !.isGuthabenTransfer = TRUE,
                          !.category = "transfer",
                          !.type = "transfer"]]

RECURSIVE linkTransfers(_, _, _, _)
linkTransfers(updated, guthabenTransfers, k, realPayments) ==
    IF k > Len(guthabenTransfers) THEN updated
    ELSE linkTransfers(linkTransfer(updated, guthabenTransfers[k], realPayments),
                       guthabenTransfers, k + 1, realPayments)

\* linkGuthabenTransfersToPayments(transactions)
linkGuthabenTransfersToPayments(list) ==
    LET guthabenTransfers ==
            SelectSeq(list, LAMBDA t : t.sourceAccount = "paypal"
                                       /\ isPayPalGuthabenTransfer(t))
        realPayments ==
            SelectSeq(list, LAMBDA t : /\ t.sourceAccount = "paypal"
                                       /\ ~isPayPalGuthabenTransfer(t)
                                       /\ t.amount < 0)
    IN  linkTransfers(list, guthabenTransfers, 1, realPayments)

\* one iteration of the loop over the matches that marks at any confidence
applyMatchAtAnyConfidence(updated, match) ==
    LET idx1 == findIndex(updated, match.transaction1.id)
        idx2 == findIndex(updated, match.transaction2.id)
    IN  IF idx1 = 0 \/ idx2 = 0 THEN updated
        ELSE LET volksbankIdx ==
                     IF updated[idx1].sourceAccount = "volksbank" THEN idx1 ELSE idx2
                 paypalIdx ==
                     IF updated[idx1].sourceAccount = "paypal" THEN idx1 ELSE idx2
             IN  [updated EXCEPT ![volksbankIdx] =
                    [@ EXCEPT !.isDuplicate = TRUE,
                              !.linkedTransactionId = updated[paypalIdx].id,
                              !.duplicateReason = match.reason]]

\* one iteration of the loop of markDuplicates over the matches
applyMatch(updated, match) ==
    LET idx1 == findIndex(updated, match.transaction1.id)
        idx2 == findIndex(updated, match.transaction2.id)
    IN  IF idx1 = 0 \/ idx2 = 0 THEN updated
        ELSE LET volksbankIdx ==
                     IF updated[idx1].sourceAccount = "volksbank" THEN idx1 ELSE idx2
                 paypalIdx ==
                     IF updated[idx1].sourceAccount = "paypal" THEN idx1 ELSE idx2
             IN  IF match.confidence >= highConfidence
                 THEN [updated EXCEPT ![volksbankIdx] =
                        [@ EXCEPT !.isDuplicate = TRUE,
                                  !.linkedTransactionId = updated[paypalIdx].id,
                                  !.duplicateReason = match.reason]]
                 ELSE updated

RECURSIVE applyMatches(_, _, _)
applyMatches(updated, duplicates, k) ==
    IF k > Len(duplicates) THEN updated
    ELSE applyMatches(applyMatch(updated, duplicates[k]), duplicates, k + 1)

\* the final loop of markDuplicates: balance transfers seen on the bank side
markBankTransfers(updated) ==
    [i \in 1..Len(updated) |->
        IF isPayPalTransfer(updated[i])
        THEN [updated[i] EXCEPT !.isDuplicate = TRUE,
                                !.duplicateReason = "PayPal Guthaben-Transfer (Bank)"]
        ELSE updated[i]]

\* markDuplicates(transactions)
markDuplicates(list) ==
    LET duplicates == findDuplicates(list)
        linked == linkGuthabenTransfersToPayments(list)
    IN  markBankTransfers(applyMatches(linked, duplicates, 1))

\* getUniqueTransactions(transactions)
getUniqueTransactions(list) == SelectSeq(list, LAMBDA t : ~t.isDuplicate)

(***************************************************************************)
(* StorageService                                                          *)
(***************************************************************************)
\* the test of importTransactions on one row: some stored transaction has its id, its
\* externalId (if the row has one), or its date, amount and description
isPresent(stored, tx) ==
    \E i \in 1..Len(stored) :
        \/ stored[i].id = tx.id
        \/ (tx.externalId /= "" /\ stored[i].externalId = tx.externalId)
        \/ /\ stored[i].date = tx.date
           /\ stored[i].amount = tx.amount
           /\ stored[i].description = tx.description

\* the loop of importTransactions from row k on
RECURSIVE importRows(_, _, _, _)
importRows(stored, newTransactions, k, addedCount) ==
    IF k > Len(newTransactions)
    THEN [transactions |-> stored,
          added |-> addedCount,
          duplicates |-> Len(newTransactions) - addedCount]
    ELSE IF isPresent(stored, newTransactions[k])
    THEN importRows(stored, newTransactions, k + 1, addedCount)
    ELSE importRows(Append(stored, newTransactions[k]), newTransactions, k + 1,
                    addedCount + 1)

\* importTransactions(newTransactions): the store it leaves and the counts it returns
importTransactions(stored, newTransactions) == importRows(stored, newTransactions, 1, 0)

\* updateTransaction(id, updates): updates is a record of the fields to overwrite
updateTransaction(stored, id, updates) ==
    LET index == findIndex(stored, id)
    IN  IF index = 0 THEN stored
        ELSE [stored EXCEPT ![index] =
                [f \in DOMAIN @ |-> IF f \in DOMAIN updates THEN updates[f] ELSE @[f]]]

\* new Date(t.date).getFullYear()
getFullYear(date) == IF date < 366 THEN 2024 ELSE 2025

getTransactionsByYear(stored, year) ==
    SelectSeq(stored, LAMBDA t : getFullYear(t.date) = year)

\* the sum of the amounts, or of their absolute values, of a list of transactions
RECURSIVE total(_, _)
total(list, absolute) ==
    IF Len(list) = 0 THEN 0
    ELSE (IF absolute THEN abs(list[1].amount) ELSE list[1].amount)
         + total(Tail(list), absolute)

\* incomeSummaries / expenseSummaries of getYearSummary, filtered by count > 0; a
\* percentage is the pair <<100 * total, grand total>> of its quotient
categorySummaries(list, categories, absolute, grandTotal) ==
    LET of(cat) == SelectSeq(list, LAMBDA t : t.category = cat)
        summaries ==
            [i \in 1..Len(categories) |->
                [category |-> categories[i],
                 total |-> total(of(categories[i]), absolute),
                 count |-> Len(of(categories[i])),
                 percentage |-> IF grandTotal > 0
                                THEN <<100 * total(of(categories[i]), absolute), grandTotal>>
                                ELSE <<0, 1>>]]
    IN  SelectSeq(summaries, LAMBDA s : s.count > 0)

\* getYearSummary(year)
getYearSummary(stored, year) ==
    LET list == getTransactionsByYear(stored, year)
        income == SelectSeq(list, LAMBDA t : t.type = "income")
        others == SelectSeq(list, LAMBDA t : t.type /= "income")
        totalIncome == total(income, FALSE)
        totalExpense == total(others, TRUE)
    IN  [year |-> year,
         totalIncome |-> totalIncome,
         totalExpense |-> totalExpense,
         balance |-> totalIncome - totalExpense,
         incomeByCategory |->
            categorySummaries(income, INCOME_CATEGORIES, FALSE, totalIncome),
         expenseByCategory |->
            categorySummaries(others, EXPENSE_CATEGORIES, TRUE, totalExpense)]

(***************************************************************************)
(* Backend feed conversion and recategorization                            *)
(***************************************************************************)
\* a || b on strings
orElse(a, b) == IF a /= "" THEN a ELSE b

\* the callback of data.map in getPayPalTransactions on one backend row; the date is
\* the same instant before and after new Date(tx.date).toISOString()
convertPayPalRow(rs, tx) ==
    LET c == IF tx.category /= ""
             THEN [category |-> tx.category, confidence |-> 200, rules |-> rs]
             ELSE categorize(rs, orElse(tx.description, orElse(tx.counterparty_name, "")),
                             tx.amount)
    IN  [transaction |->
            Transaction(tx.id, "paypal", tx.date, tx.amount,
                        IF tx.amount > 0 THEN "income" ELSE "expense",
                        c.category,
                        orElse(tx.description, orElse(tx.counterparty_name, "PayPal")),
                        orElse(tx.counterparty_name, "PayPal"),
                        c.confidence, tx.id),
         rules |-> c.rules]

\* getPayPalTransactions(): the converted rows and the rule store categorize leaves
RECURSIVE convertPayPalRows(_, _, _, _)
convertPayPalRows(rs, data, k, converted) ==
    IF k > Len(data) THEN [transactions |-> converted, rules |-> rs]
    ELSE LET r == convertPayPalRow(rs, data[k])
         IN  convertPayPalRows(r.rules, data, k + 1, Append(converted, r.transaction))

getPayPalTransactions(rs, data) == convertPayPalRows(rs, data, 1, <<>>)

\* storageService.getAllTransactions(), which the sources call but do not define: it
\* is taken to return the stored transactions, as getTransactions does
getAllTransactions(stored) == stored

\* the type by the sign of the amount alone
typeBySign(category, amount) == IF amount >= 0 THEN "income" ELSE "expense"

\* the type recategorizeUnconfirmed and updateTransactionCategory give a transaction
typeFor(category, amount) ==
    IF category = "transfer" THEN "transfer"
    ELSE IF amount >= 0 THEN "income"
    ELSE "expense"

\* the loop of recategorizeUnconfirmed without the test that skips the confirmed
RECURSIVE recategorizeAllFrom(_, _, _, _)
recategorizeAllFrom(rs, list, k, updated) ==
    IF k > Len(list) THEN [transactions |-> list, updated |-> updated, rules |-> rs]
    ELSE LET c == categorize(rs, list[k].description, list[k].amount)
             tx == [list[k] EXCEPT !.category = c.category,
                                   !.confidence = c.confidence,
                                   !.type = typeFor(c.category, list[k].amount)]
         IN  IF c.category /= list[k].category
             THEN recategorizeAllFrom(c.rules, [list EXCEPT ![k] = tx], k + 1,
                                      Append(updated, tx))
             ELSE recategorizeAllFrom(c.rules, list, k + 1, updated)

\* the loop of recategorizeUnconfirmed from position k on; the transactions are
\* changed in place
RECURSIVE recategorizeFrom(_, _, _, _)
recategorizeFrom(rs, list, k, updated) ==
    IF k > Len(list) THEN [transactions |-> list, updated |-> updated, rules |-> rs]
    ELSE IF list[k].isUserConfirmed \/ list[k].isManuallyCategized
    THEN recategorizeFrom(rs, list, k + 1, updated)
    ELSE LET c == categorize(rs, list[k].description, list[k].amount)
             tx == [list[k] EXCEPT !.category = c.category,
                                   !.confidence = c.confidence,
                                   !.type = typeFor(c.category, list[k].amount)]
         IN  IF c.category /= list[k].category
             THEN recategorizeFrom(c.rules, [list EXCEPT ![k] = tx], k + 1,
                                   Append(updated, tx))
             ELSE recategorizeFrom(c.rules, list, k + 1, updated)

\* recategorizeUnconfirmed(transactions) that skips no transaction
recategorizeEvery(rs, list) == recategorizeAllFrom(rs, list, 1, <<>>)

\* recategorizeUnconfirmed(transactions)
recategorizeUnconfirmed(rs, list) == recategorizeFrom(rs, list, 1, <<>>)

\* the loop of updateTransactionCategory that saves the re-categorized transactions
RECURSIVE saveRecategorized(_, _, _)
saveRecategorized(stored, recategorized, k) ==
    IF k > Len(recategorized) THEN stored
    ELSE saveRecategorized(
            updateTransaction(stored, recategorized[k].id,
                              [category |-> recategorized[k].category,
                               type |-> recategorized[k].type,
                               confidence |-> recategorized[k].confidence]),
            recategorized, k + 1)

\* generateMockData() for one month: a PayPal purchase on day and the bank line of the
\* same purchase delay days later, newest first, marked by markDuplicates
generateMockData(rs, day, delay) ==
    LET purchase(c) == Transaction("pp_purchase", "paypal", day, -4599, "expense",
                                   c.category, "Zooplus Bestellung", "Zooplus AG",
                                   c.confidence, "PPPURCHASE")
        bankLine(c) == Transaction("vb_paypal", "volksbank", day + delay, -4599,
                                   "expense", c.category, "PAYPAL *ZOOPLUS",
                                   "PayPal Europe S.a.r.l.", c.confidence,
                                   "VB_PP_PPPURCHASE")
        generated(c) == [transactions |-> markDuplicates(<<bankLine(c), purchase(c)>>),
                         rules |-> c.rules]
    IN  generated(categorize(rs, "Zooplus Bestellung", -4599))

\* the transactions updateYearData hands to the screen
shownTransactions(stored, year) ==
    linkGuthabenTransfersToPayments(getTransactionsByYear(stored, year))

(***************************************************************************)
(* CSV import: the rows of a Volksbank export                              *)
(***************************************************************************)
\* CSV_COLUMNS, as positions in a row (the indices of the program plus one)
BOOKING_DATE == 5
COUNTERPARTY_NAME == 7
COUNTERPARTY_IBAN == 8
COUNTERPARTY_BIC == 9
BOOKING_TEXT == 10
PURPOSE == 11
AMOUNT == 12

Digits == "0123456789"
isDigit(c) == \E i \in 1..Len(Digits) : Char(Digits, i) = c
digitValue(c) == (CHOOSE i \in 1..Len(Digits) : Char(Digits, i) = c) - 1

\* the characters of s that are at the positions in keep, in order
RECURSIVE selectChars(_, _, _, _)
selectChars(s, keep, from, to) ==
    IF from > to THEN ""
    ELSE IF from = to THEN (IF from \in keep THEN Char(s, from) ELSE "")
    ELSE selectChars(s, keep, from, (from + to) \div 2)
         \o selectChars(s, keep, (from + to) \div 2 + 1, to)

\* String.prototype.trim, for blanks
trim(s) ==
    LET solid == {i \in 1..Len(s) : ~isSpace(Char(s, i))}
    IN  IF solid = {} THEN ""
        ELSE SubSeq(s, CHOOSE i \in solid : \A j \in solid : i <= j,
                       CHOOSE i \in solid : \A j \in solid : i >= j)

\* the value of a string of digits
RECURSIVE digitsValue(_)
digitsValue(s) ==
    IF Len(s) = 0 THEN 0
    ELSE 10 * digitsValue(SubSeq(s, 1, Len(s) - 1)) + digitValue(Char(s, Len(s)))

\* the length of the longest run of digits of s that starts at position from
digitRun(s, from) ==
    LET stops == {i \in from..Len(s) : ~isDigit(Char(s, i))}
    IN  IF stops = {} THEN Len(s) - from + 1
        ELSE (CHOOSE i \in stops : \A j \in stops : i <= j) - from

\* one line of parseCSV: the cells between the semicolons that stand outside quotes,
\* without the quotes, trimmed
parseLine(line) ==
    LET quotes == {i \in 1..Len(line) : Char(line, i) = "\""}
        outside(i) == Cardinality({q \in quotes : q < i}) % 2 = 0
        seps == {i \in 1..Len(line) : Char(line, i) = ";" /\ outside(i)}
        cells == pieces(line, seps, 1)
        unquoted(c) == selectChars(c, {i \in 1..Len(c) : Char(c, i) /= "\""}, 1, Len(c))
    IN  [k \in 1..Len(cells) |-> trim(unquoted(cells[k]))]

\* parseCSV(content): the content is held as the sequence of its lines
RECURSIVE parseCSV(_)
parseCSV(lines) ==
    IF Len(lines) = 0 THEN <<>>
    ELSE IF trim(lines[1]) = "" THEN parseCSV(Tail(lines))
    ELSE <<parseLine(trim(lines[1]))>> \o parseCSV(Tail(lines))

\* parseGermanAmount(amountStr), in cents: the thousand separators removed, the first
\* comma read as the decimal point, then parseFloat(...) || 0.  The amounts of the
\* model have at most two decimals.
parseGermanAmount(amountStr) ==
    LET dots == {i \in 1..Len(amountStr) : Char(amountStr, i) = "."}
        plain == selectChars(amountStr, (1..Len(amountStr)) \ dots, 1, Len(amountStr))
        signed == Len(plain) > 0 /\ Char(plain, 1) \in {"-", "+"}
        start == IF signed THEN 2 ELSE 1
        whole == digitRun(plain, start)
        point == start + whole
        decimals == IF point <= Len(plain) /\ Char(plain, point) = ","
                    THEN digitRun(plain, point + 1) ELSE 0
        fraction == SubSeq(plain, point + 1, point + min(decimals, 2))
        cents == digitsValue(SubSeq(plain, start, point - 1)) * 100
                 + (IF Len(fraction) = 1 THEN 10 * digitsValue(fraction)
                    ELSE digitsValue(fraction))
    IN  IF whole = 0 /\ decimals = 0 THEN 0
        ELSE IF signed /\ Char(plain, 1) = "-" THEN -cents ELSE cents

\* the days of the months before month m, in the leap year 2024 and in 2025
daysBefore(year, m) ==
    LET lengths == <<31, IF year = 2024 THEN 29 ELSE 28, 31, 30, 31, 30, 31, 31, 30, 31,
                     30, 31>>
        sumTo[k \in 0..12] == IF k = 0 THEN 0 ELSE sumTo[k - 1] + lengths[k]
    IN  sumTo[m - 1]

\* parseGermanDate(dateStr) at the day today: <<day>> for the day of the date, <<today>>
\* for an empty string or one that has not three parts, and <<>> where the three parts
\* make no date, since toISOString() throws a RangeError on an invalid date.  Dates
\* are days from 1 January 2024 on; the dates of the model lie in 2024 and 2025.
parseGermanDate(dateStr, today) ==
    LET parts == pieces(dateStr, {i \in 1..Len(dateStr) : Char(dateStr, i) = "."}, 1)
        numeric(part, width) ==
            Len(part) >= 1 /\ Len(part) <= width /\ digitRun(part, 1) = Len(part)
    IN  IF dateStr = "" \/ Len(parts) /= 3 THEN <<today>>
        ELSE IF /\ numeric(parts[1], 2) /\ numeric(parts[2], 2)
                /\ Len(parts[3]) = 4 /\ numeric(parts[3], 4)
                /\ digitsValue(parts[3]) \in {2024, 2025}
                /\ digitsValue(parts[2]) \in 1..12
                /\ digitsValue(parts[1]) >= 1
                /\ digitsValue(parts[1])
                   <= daysBefore(digitsValue(parts[3]), digitsValue(parts[2]) + 1)
                      - daysBefore(digitsValue(parts[3]), digitsValue(parts[2]))
             THEN <<(digitsValue(parts[3]) - 2024) * 366
                    + daysBefore(digitsValue(parts[3]), digitsValue(parts[2]))
                    + digitsValue(parts[1]) - 1>>
             ELSE <<>>

\* PAYPAL_IDENTIFIERS
PAYPAL_IBAN == "LU89751000135104200E"
PAYPAL_BIC == "PPLXLUL2"

\* /PP\.\d+\.PP/.test(purpose)
purposePattern(purpose) ==
    \E i \in 1..Len(purpose) :
        /\ SubSeq(purpose, i, min(i + 2, Len(purpose))) = "PP."
        /\ digitRun(purpose, i + 3) >= 1
        /\ SubSeq(purpose, i + 3 + digitRun(purpose, i + 3),
                  min(i + 5 + digitRun(purpose, i + 3), Len(purpose))) = ".PP"

\* isPayPalTransfer(row) of the CSV import
isPayPalTransferRow(row) ==
    \/ includes(row[COUNTERPARTY_NAME], "PayPal")
    \/ row[COUNTERPARTY_IBAN] = PAYPAL_IBAN
    \/ row[COUNTERPARTY_BIC] = PAYPAL_BIC
    \/ purposePattern(row[PURPOSE])

IdChars == "abcdefghijklmnopqrstuvwxyzABCDEFGHIJKLMNOPQRSTUVWXYZ0123456789_-"

\* generateExternalId(row)
generateExternalId(row) ==
    LET counterparty == IF row[COUNTERPARTY_NAME] = "" THEN "unknown"
                        ELSE row[COUNTERPARTY_NAME]
        raw == "bank_" \o row[BOOKING_DATE] \o "_" \o row[AMOUNT] \o "_"
               \o SubSeq(counterparty, 1, min(20, Len(counterparty))) \o "_"
               \o SubSeq(row[PURPOSE], 1, min(30, Len(row[PURPOSE])))
    IN  selectChars(raw, {i \in 1..Len(raw) : includes(IdChars, Char(raw, i))}, 1, Len(raw))

\* The body of the loop of importVolksbankCSV for data row k.  acc holds the result so
\* far, the known external ids, the rule store, and whether an exception ended the
\* loop.  The id stands for the random UUID; linkedPayPalRef, which no other code
\* reads, is left out.
importRow(acc, row, k, skipPayPalTransfers, today) ==
    IF Len(row) < 12
    THEN [acc EXCEPT !.result.errors =
            Append(@, <<"Zeile übersprungen: Nicht genug Spalten", Len(row)>>)]
    ELSE IF isPayPalTransferRow(row) /\ skipPayPalTransfers
    THEN [acc EXCEPT !.result.skippedPayPal = @ + 1]
    ELSE IF generateExternalId(row) \in acc.existingIds
    THEN [acc EXCEPT !.result.skippedDuplicates = @ + 1]
    ELSE LET amount == parseGermanAmount(row[AMOUNT])
             date == parseGermanDate(row[BOOKING_DATE], today)
             counterparty == IF row[COUNTERPARTY_NAME] = "" THEN "Unbekannt"
                             ELSE row[COUNTERPARTY_NAME]
             description == IF row[PURPOSE] /= "" THEN row[PURPOSE]
                            ELSE IF row[BOOKING_TEXT] /= "" THEN row[BOOKING_TEXT]
                            ELSE counterparty
         IN  IF date = <<>>
             THEN [acc EXCEPT !.thrown = TRUE,
                              !.result.errors =
                                    Append(@, <<"Parsing-Fehler: Invalid time value">>)]
             ELSE IF isPayPalTransferRow(row)
             THEN [acc EXCEPT
                    !.result.transactions =
                        Append(@, Transaction(<<"uuid", k>>, "volksbank", date[1], amount, "transfer", "transfer", description, counterparty, 190, generateExternalId(row))),
                    !.result.imported = @ + 1,
                    !.existingIds = @ \cup {generateExternalId(row)}]
             ELSE LET c == categorize(acc.rules, description, amount)
                  IN  [acc EXCEPT
                        !.result.transactions =
                            Append(@, Transaction(<<"uuid", k>>, "volksbank", date[1], amount, typeFor(c.category, amount), c.category, description, counterparty, c.confidence, generateExternalId(row))),
                        !.result.imported = @ + 1,
                        !.existingIds = @ \cup {generateExternalId(row)},
                        !.rules = c.rules]

RECURSIVE importCsvRows(_, _, _, _, _)
importCsvRows(acc, dataRows, k, skipPayPalTransfers, today) ==
    IF k > Len(dataRows) \/ acc.thrown THEN acc
    ELSE importCsvRows(importRow(acc, dataRows[k], k, skipPayPalTransfers, today),
                     dataRows, k + 1, skipPayPalTransfers, today)

\* importVolksbankCSV(csvContent, existingTransactions, options) at the day today: the
\* result it returns and the rule store it leaves
importVolksbankCSV(rs, csvContent, existingTransactions, skipPayPalTransfers, today) ==
    LET rows == parseCSV(csvContent)
        empty == [success |-> FALSE, totalRows |-> 0, imported |-> 0,
                  skippedPayPal |-> 0, skippedDuplicates |-> 0, errors |-> <<>>,
                  transactions |-> <<>>]
        existingIds == {existingTransactions[i].externalId :
                            i \in {j \in 1..Len(existingTransactions) :
                                        existingTransactions[j].externalId /= ""}}
    IN  IF Len(rows) < 2
        THEN [result |-> [empty EXCEPT !.errors = <<<<"CSV-Datei enthält keine Daten">>>>],
              rules |-> rs]
        ELSE LET done == importCsvRows(
                            [result |-> [empty EXCEPT !.totalRows = Len(rows) - 1],
                             existingIds |-> existingIds, rules |-> rs,
                             thrown |-> FALSE],
                            Tail(rows), 1, skipPayPalTransfers, today)
             IN  [result |-> [done.result EXCEPT !.success = ~done.thrown],
                  rules |-> done.rules]

(***************************************************************************)
(* Bounds and input pools                                                  *)
(***************************************************************************)
MaxCatSteps == 2    \* operations in a run of the categorizer

Amounts == {50000, 52000, 20000, -20000, 0}
LearnCategories == {"protection_fee", "transfer", "donation"}

(***************************************************************************)
(* SpecCat: the categorizer alone, from the seeded rule store              *)
(***************************************************************************)
InitCat ==
    /\ rules = seededRules
    /\ transactions = <<>>
    /\ op = "init"
    /\ input = <<>>
    /\ output = <<>>
    /\ steps = 0
    /\ surroundingsAtStart

Categorize ==
    \E d \in Descriptions, a \in Amounts :
        LET r == categorize(rules, d, a)
        IN  /\ steps < MaxCatSteps
            /\ steps' = steps + 1
            /\ rules' = r.rules
            /\ op' = "categorize"
            /\ input' = [description |-> d, amount |-> a]
            /\ output' = [category |-> r.category, confidence |-> r.confidence,
                          rule |-> r.rule]
            /\ UNCHANGED transactions

LearnFromCorrection ==
    \E d \in Descriptions, c \in LearnCategories, a \in Amounts :
        LET rs == learnFromCorrection(rules, d, c, <<a>>)
        IN  /\ steps < MaxCatSteps
            /\ steps' = steps + 1
            /\ rules' = rs
            /\ op' = "learnFromCorrection"
            /\ input' = [description |-> d, category |-> c, amount |-> a]
            /\ output' = <<>>
            /\ UNCHANGED transactions

NextCat ==
    \/ (Categorize /\ UNCHANGED surroundings)
    \/ (LearnFromCorrection /\ UNCHANGED surroundings)

SpecCat == InitCat /\ [][NextCat]_vars

\* C6: categorize returns a confidence in [0.1, 0.99]: exactly 0.1 on the fallback,
\* and min(0.5 + matchCount*0.05 + priority/200, 0.99), never 1.0, on a rule match
\* (matchCount being the matched rule's count after the increment).
C6_ConfidenceBounds ==
    op = "categorize" =>
        /\ output.confidence >= 20
        /\ output.confidence <= 198
        /\ output.confidence /= 200
        /\ output.rule = 0 => output.confidence = 20
        /\ output.rule /= 0 =>
              LET r == rules[output.rule]
              IN  /\ 100 + r.matchCount * 10 + r.priority >= 198
                     => output.confidence = 198
                  /\ 100 + r.matchCount * 10 + r.priority < 198
                     => output.confidence = 100 + r.matchCount * 10 + r.priority

\* C6 witness: a rule boosted by learnFromCorrection matched and categorize returned
\* the ceiling 0.99.
C6_Witness ==
    /\ op = "categorize"
    /\ output.rule /= 0
    /\ rules[output.rule].priority > 150
    /\ output.confidence = 198

\* the positions, in the order categorize tries the rules, of the transfer rules whose
\* pattern matches the description of the last categorize call
matchingTransferRules(order) ==
    {k \in 1..Len(order) :
        /\ rules[order[k]].category = "transfer"
        /\ test(rules[order[k]].pattern, lowerCaseOf[input.description])}

\* C19: categorize never passes over a transfer rule whose pattern matches, whatever
\* the sign of the amount: it returns on that rule or on one tried before it.  With
\* the seeded rule store categorize('PayPal Guthaben Transfer', a) returns transfer
\* for a = +200 and for a = -200.
C19_TransferRuleNeverSkipped ==
    op = "categorize" =>
        /\ \A order \in {sortedRules(rules)} :
                \A k \in matchingTransferRules(order) :
                    \E n \in 1..k : order[n] = output.rule
        /\ (/\ steps = 1
            /\ input.description = "PayPal Guthaben Transfer"
            /\ input.amount \in {20000, -20000})
           => output.category = "transfer"

\* C19 witness: categorize returned on a transfer rule for a negative amount that lies
\* below the range the rule carries.
C19_Witness ==
    /\ op = "categorize"
    /\ input.amount < 0
    /\ output.rule /= 0
    /\ rules[output.rule].category = "transfer"
    /\ isDefined(rules[output.rule].minAmount)
    /\ abs(input.amount) < rules[output.rule].minAmount[1] * 100

\* C25: categorize returns on a rule that carries an amount range only when the
\* absolute amount lies within [minAmount, maxAmount], whatever the category of the
\* rule, the transfer category and the rules learnFromCorrection made or boosted
\* included.
C25_RangeRespectedByEveryRule ==
    (op = "categorize" /\ output.rule /= 0) =>
        \A rule \in {rules[output.rule]} :
            /\ isDefined(rule.minAmount) => abs(input.amount) >= rule.minAmount[1] * 100
            /\ isDefined(rule.maxAmount) => abs(input.amount) <= rule.maxAmount[1] * 100

\* the rule the last learnFromCorrection call found to boost, 0 when it made a new one
boosted ==
    existingRule(rules, keywordsOf[input'.description], input'.category, <<input'.amount>>)

\* C26: when learnFromCorrection boosts an existing rule with an amount given, the
\* priority grows by 10, matchCount by 1, and the range becomes the union of the old
\* range and the tolerance band: minAmount = min(old minAmount, band min) and
\* maxAmount = max(old maxAmount, band max) for every old range, an old minAmount
\* of 0 included; no other rule changes.
C26_BoostWidensToUnion ==
    [][(op' = "learnFromCorrection" /\ boosted /= 0) =>
        \A e \in {boosted} :
        \A band \in {amountBand(input'.category, <<input'.amount>>)} :
            /\ Len(rules') = Len(rules)
            /\ \A i \in DOMAIN rules : i /= e => rules'[i] = rules[i]
            /\ rules'[e].priority = rules[e].priority + 10
            /\ rules'[e].matchCount = rules[e].matchCount + 1
            /\ isDefined(rules[e].minAmount) =>
                    rules'[e].minAmount = <<min(rules[e].minAmount[1], band.minAmt[1])>>
            /\ isDefined(rules[e].maxAmount) =>
                    rules'[e].maxAmount = <<max(rules[e].maxAmount[1], band.maxAmt[1])>>]_vars

\* C29: a boost never narrows a rule: every description and amount on which the
\* boosted rule returned before learnFromCorrection, it returns on afterwards; a rule
\* without an amount range stays applicable to every amount.
C29_BoostNeverNarrows ==
    [][(op' = "learnFromCorrection" /\ boosted /= 0) =>
        \A e \in {boosted} :
            \A d \in Descriptions, a \in Amounts :
                ruleApplies(rules[e], d, a) => ruleApplies(rules'[e], d, a)]_vars

(***************************************************************************)
(* SpecDup: the linker on transaction lists drawn from a pool              *)
(***************************************************************************)
MaxTx == 3          \* transactions in a list handed to the linker
MaxDupSteps == 2    \* linker operations in a run

\* The transactions the lists are made of: a PayPal payment, the bank line of the same
\* payment, balance transfers on either side, and unrelated lines.
TxPool == <<
    Transaction("pp1", "paypal", 10, -4599, "expense", "foster_care",
                "Zooplus Bestellung", "Zooplus AG", 198, "PP1"),
    Transaction("vb1", "volksbank", 11, -4599, "expense", "foster_care",
                "PAYPAL *ZOOPLUS", "PayPal Europe S.a.r.l.", 198, "VB1"),
    Transaction("pp2", "paypal", 10, -4599, "expense", "transfer",
                "PayPal Guthaben Transfer", "PayPal", 198, "PP2"),
    Transaction("pp3", "paypal", 11, -20000, "expense", "transfer",
                "PayPal Guthaben Transfer", "PayPal", 198, "PP3"),
    Transaction("vb2", "volksbank", 11, -20000, "transfer", "transfer",
                "PAYPAL *ZOOPLUS", "PayPal Europe S.a.r.l.", 190, "VB2"),
    Transaction("vb3", "volksbank", 10, -4600, "expense", "foster_care",
                "Zooplus Bestellung", "Zooplus AG", 198, "VB3"),
    Transaction("vb4", "volksbank", 14, -4599, "expense", "other_expense",
                "PayPal Europe Lastschrift", "PayPal Europe S.a.r.l.", 20, "VB4"),
    Transaction("pp4", "paypal", 17, 4599, "income", "donation",
                "Spende Tierheim", "PayPal", 198, "PP4"),
    Transaction("pp5", "paypal", 13, -20000, "expense", "foster_care",
                "Zooplus Bestellung", "Zooplus AG", 198, "PP5"),
    Transaction("vb5", "volksbank", 12, -4599, "expense", "foster_care",
                "PAYPAL *ZOOPLUS", "PayPal Europe S.a.r.l.", 198, "VB5") >>

\* the lists of up to MaxTx distinct transactions of the pool, in any order
TxLists ==
    LET picks == UNION {[1..n -> 1..Len(TxPool)] : n \in 1..MaxTx}
    IN  {[i \in DOMAIN f |-> TxPool[f[i]]] :
            f \in {g \in picks : \A i, j \in DOMAIN g : i /= j => g[i] /= g[j]}}

InitDup ==
    /\ rules = <<>>
    /\ transactions \in TxLists
    /\ op = "init"
    /\ input = <<>>
    /\ output = <<>>
    /\ steps = 0
    /\ surroundingsAtStart

FindDuplicates ==
    /\ steps < MaxDupSteps
    /\ steps' = steps + 1
    /\ op' = "findDuplicates"
    /\ input' = transactions
    /\ output' = findDuplicates(transactions)
    /\ UNCHANGED <<rules, transactions>>

LinkGuthabenTransfersToPayments ==
    /\ steps < MaxDupSteps
    /\ steps' = steps + 1
    /\ op' = "linkGuthabenTransfersToPayments"
    /\ input' = transactions
    /\ transactions' = linkGuthabenTransfersToPayments(transactions)
    /\ output' = <<>>
    /\ UNCHANGED rules

MarkDuplicates ==
    /\ steps < MaxDupSteps
    /\ steps' = steps + 1
    /\ op' = "markDuplicates"
    /\ input' = transactions
    /\ transactions' = markDuplicates(transactions)
    /\ output' = <<>>
    /\ UNCHANGED rules

NextDup ==
    \/ (FindDuplicates /\ UNCHANGED surroundings)
    \/ (LinkGuthabenTransfersToPayments /\ UNCHANGED surroundings)
    \/ (MarkDuplicates /\ UNCHANGED surroundings)

SpecDup == InitDup /\ [][NextDup]_vars

\* the fields the marking pass sets
linkFields(t) ==
    <<t.isDuplicate, t.linkedTransactionId, t.linkedPaymentId, t.isGuthabenTransfer,
      t.duplicateReason, t.category, t.type>>

\* C8: markDuplicates is idempotent: a second pass over its own result changes no
\* isDuplicate, linkedTransactionId, linkedPaymentId, isGuthabenTransfer,
\* duplicateReason, category or type.
C8_MarkDuplicatesIdempotent ==
    op = "markDuplicates" =>
        LET again == markDuplicates(transactions)
        IN  \A i \in 1..Len(transactions) :
                linkFields(again[i]) = linkFields(transactions[i])

\* C9: after markDuplicates no bank transaction is linked (linkedTransactionId) to a
\* transaction flagged isGuthabenTransfer.
C9_NoLinkToGuthabenTransfer ==
    op = "markDuplicates" =>
        \A i, j \in 1..Len(transactions) :
            (/\ transactions[i].sourceAccount = "volksbank"
             /\ transactions[i].linkedTransactionId /= ""
             /\ transactions[i].linkedTransactionId = transactions[j].id)
            => ~transactions[j].isGuthabenTransfer

\* C10: every pair of findDuplicates is one PayPal and one bank transaction of the same
\* type, at most 5 days and 0.01 EUR apart, with a confidence in [0.7, 1].
C10_PairsAreCrossAccount ==
    op = "findDuplicates" =>
        \A k \in 1..Len(output) :
            LET m == output[k]
            IN  /\ {m.transaction1.sourceAccount, m.transaction2.sourceAccount}
                   = {"paypal", "volksbank"}
                /\ m.transaction1.type = m.transaction2.type
                /\ abs(m.transaction1.date - m.transaction2.date) <= 5
                /\ abs(abs(m.transaction1.amount) - abs(m.transaction2.amount)) <= 1
                /\ m.confidence >= 70
                /\ m.confidence <= 100
                /\ \E i, j \in 1..Len(input) :
                        input[i] = m.transaction1 /\ input[j] = m.transaction2

\* C10 witness: findDuplicates returned a pair although the list also holds two
\* transactions of one account with equal amount and date.
C10_Witness ==
    /\ op = "findDuplicates"
    /\ Len(output) > 0
    /\ \E i, j \in 1..Len(input) :
            /\ i /= j
            /\ input[i].sourceAccount = input[j].sourceAccount
            /\ input[i].amount = input[j].amount
            /\ input[i].date = input[j].date

\* the PayPal and the bank entries of the list handed to markDuplicates
paypalEntries == {i \in 1..Len(input) : input[i].sourceAccount = "paypal"}
bankEntries == {j \in 1..Len(input) : input[j].sourceAccount = "volksbank"}

\* entries i and j of that list form a pair that scores at least 0.9
highPair(i, j) ==
    /\ checkDuplicate(input[i], input[j]) /= <<>>
    /\ checkDuplicate(input[i], input[j])[1].confidence >= 90

\* a PayPal entry i and a bank entry j of equal amount and type, one day apart, the
\* bank description carrying a PayPal signature
signedPair(i, j) ==
    /\ input[i].type = input[j].type
    /\ abs(input[i].amount) = abs(input[j].amount)
    /\ abs(input[i].date - input[j].date) = 1
    /\ \E k \in 1..Len(PAYPAL_PATTERNS) : test(PAYPAL_PATTERNS[k], input[j].description)

paymentsNear(i, c) ==
    {p \in 1..Len(input) :
        /\ input[p].sourceAccount = "paypal"
        /\ ~isPayPalGuthabenTransfer(input[p])
        /\ input[p].amount < 0
        /\ abs(input[p].date - input[i].date) <= 1
        /\ abs(abs(input[p].amount) - abs(input[i].amount)) <= c}

\* entry i came back linked to a payment near it
linkedToPayment(i) ==
    /\ transactions[i].isDuplicate
    /\ transactions[i].isGuthabenTransfer
    /\ \E p \in paymentsNear(i, 1) : transactions[i].linkedPaymentId = input[p].id
    /\ transactions[i].category = input[i].category
    /\ transactions[i].type = input[i].type

\* entry i came back as a standalone transfer
standaloneTransfer(i) ==
    /\ transactions[i].isGuthabenTransfer
    /\ transactions[i].category = "transfer"
    /\ transactions[i].type = "transfer"
    /\ transactions[i].isDuplicate = input[i].isDuplicate
    /\ transactions[i].linkedPaymentId = input[i].linkedPaymentId

C30_LinksAreOneToOne ==
    op = "markDuplicates" =>
        \A i, j \in DOMAIN transactions :
            (/\ i /= j
             /\ transactions[i].sourceAccount = "volksbank"
             /\ transactions[j].sourceAccount = "volksbank"
             /\ transactions[i].linkedTransactionId /= "")
            => transactions[i].linkedTransactionId /= transactions[j].linkedTransactionId

(***************************************************************************)
(* SpecImport: batches imported into an empty store                        *)
(***************************************************************************)
MaxBatch == 2          \* rows in a batch
MaxImportSteps == 2    \* imports in a run

\* The rows the batches are made of: two PayPal records of one day with equal amount
\* and description, a bank row without origin identifier and its re-read under another
\* id, and the first PayPal record fetched again under another id and date.
ImportPool == <<
    Transaction("a", "paypal", 10, 5000, "income", "donation",
                "Spende Tierheim", "PayPal", 160, "PP1"),
    Transaction("b", "paypal", 10, 5000, "income", "donation",
                "Spende Tierheim", "PayPal", 160, "PP2"),
    Transaction("c", "volksbank", 11, -4599, "expense", "foster_care",
                "Zooplus Bestellung", "Zooplus AG", 160, ""),
    Transaction("d", "volksbank", 11, -4599, "expense", "foster_care",
                "Zooplus Bestellung", "Zooplus AG", 160, ""),
    Transaction("e", "paypal", 12, 5000, "income", "donation",
                "Spende Tierheim", "PayPal", 160, "PP1") >>

\* the batches of up to MaxBatch rows of the pool, a row possibly more than once
ImportBatches ==
    {[i \in DOMAIN f |-> ImportPool[f[i]]] :
        f \in UNION {[1..n -> 1..Len(ImportPool)] : n \in 1..MaxBatch}}

InitImport ==
    /\ rules = <<>>
    /\ transactions = <<>>
    /\ op = "init"
    /\ input = <<>>
    /\ output = <<>>
    /\ steps = 0
    /\ surroundingsAtStart

ImportTransactions ==
    \E newTransactions \in ImportBatches :
        LET r == importTransactions(transactions, newTransactions)
        IN  /\ steps < MaxImportSteps
            /\ steps' = steps + 1
            /\ op' = "importTransactions"
            /\ input' = [transactions |-> transactions,
                         newTransactions |-> newTransactions]
            /\ transactions' = r.transactions
            /\ output' = [added |-> r.added, duplicates |-> r.duplicates]
            /\ UNCHANGED rules

NextImport ==
    \/ (ImportTransactions /\ UNCHANGED surroundings)

SpecImport == InitImport /\ [][NextImport]_vars

\* C3: importTransactions is idempotent on origin records: after an import every
\* record of the batch that has an externalId is stored exactly once, also when the
\* batch holds it twice, and importing the same batch again adds nothing and leaves
\* the store as it is.
C3_ImportIdempotent ==
    op = "importTransactions" =>
        LET again == importTransactions(transactions, input.newTransactions)
        IN  /\ \A k \in 1..Len(input.newTransactions) :
                  input.newTransactions[k].externalId /= "" =>
                      Cardinality({i \in 1..Len(transactions) :
                          transactions[i].externalId
                              = input.newTransactions[k].externalId}) = 1
            /\ again.added = 0
            /\ again.transactions = transactions

\* C4: a row that carries an externalId counts as already present only through that
\* identifier (or its id): if neither the store nor an earlier row of the batch has the
\* row's externalId or id, the row is stored, whatever date, amount and description
\* the stored transactions have.
C4_TripleOnlyWithoutExternalId ==
    op = "importTransactions" =>
        \A k \in 1..Len(input.newTransactions) :
            LET tx == input.newTransactions[k]
                earlier == input.transactions \o SubSeq(input.newTransactions, 1, k - 1)
            IN  (/\ tx.externalId /= ""
                 /\ \A i \in 1..Len(earlier) :
                        earlier[i].id /= tx.id /\ earlier[i].externalId /= tx.externalId)
                => \E i \in 1..Len(transactions) : transactions[i] = tx

(***************************************************************************)
(* Spec: the application, from a fresh installation                        *)
(***************************************************************************)
MaxSteps == 3    \* user actions in a run
MaxFeed == 2     \* rows the backend returns to one synchronisation

Years == {2024, 2025}

\* The rows of the PayPal backend: two purchases, a balance transfer, and a donation
\* the backend has a category for.
PayPalRows == <<
    [id |-> "PP1", date |-> 10, amount |-> -4599, counterparty_name |-> "Zooplus AG",
     description |-> "Zooplus Bestellung", category |-> ""],
    [id |-> "PP6", date |-> 12, amount |-> -12000, counterparty_name |-> "Zooplus AG",
     description |-> "Zooplus Bestellung", category |-> ""],
    [id |-> "PP3", date |-> 11, amount |-> 20000, counterparty_name |-> "PayPal",
     description |-> "PayPal Guthaben Transfer", category |-> ""],
    [id |-> "PP5", date |-> 400, amount |-> 5000, counterparty_name |-> "",
     description |-> "Spende Tierheim", category |-> "donation"] >>

\* what the backend may return: up to MaxFeed distinct rows, in their order
PayPalFeeds ==
    {SelectSeq(PayPalRows, LAMBDA r : r.id \in ids) :
        ids \in {s \in SUBSET {PayPalRows[i].id : i \in 1..Len(PayPalRows)} :
                    Cardinality(s) <= MaxFeed}}

\* the categories the user picks in the model
PickedCategories == {"veterinary", "donation", "transfer"}

MockDays == {10, 380}
MockDelays == {1, 2}

Init ==
    /\ rules = seededRules
    /\ transactions = <<>>
    /\ op = "init"
    /\ input = <<>>
    /\ output = <<>>
    /\ steps = 0
    /\ surroundingsAtStart

\* handleSyncPayPal: fetch, convert, import, refreshData
SyncPayPal ==
    /\ steps < MaxSteps
    /\ \E data \in PayPalFeeds :
        \E fetched \in {getPayPalTransactions(rules, data)} :
        \E imported \in {importTransactions(transactions, fetched.transactions)} :
            /\ steps' = steps + 1
            /\ op' = "syncPayPal"
            /\ input' = data
            /\ IF Len(fetched.transactions) > 0
               THEN /\ transactions' = imported.transactions
                    /\ rules' = seededRules
                    /\ output' = [added |-> imported.added,
                                  duplicates |-> imported.duplicates]
               ELSE /\ transactions' = transactions
                    /\ rules' = fetched.rules
                    /\ output' = [added |-> 0, duplicates |-> 0]

\* updateTransactionCategory(id, category) on a transaction of the shown year
UpdateTransactionCategory ==
    /\ steps < MaxSteps
    /\ \E year \in Years, category \in PickedCategories :
        \E shown \in {shownTransactions(transactions, year)} :
        \E k \in 1..Len(shown) :
        \E transaction \in {shown[k]} :
        \E corrected \in
               {updateTransaction(transactions, transaction.id,
                    [category |-> category,
                     type |-> typeFor(category, transaction.amount),
                     isManuallyCategized |-> TRUE,
                     isUserConfirmed |-> TRUE,
                     confidence |-> 200])} :
        \E learned \in {learnFromCorrection(rules, transaction.description, category,
                                            <<transaction.amount>>)} :
        \E pass \in {recategorizeUnconfirmed(learned, getAllTransactions(corrected))} :
        \E saved \in {saveRecategorized(pass.transactions, pass.updated, 1)} :
            /\ steps' = steps + 1
            /\ op' = "updateTransactionCategory"
            /\ input' = [id |-> transaction.id, category |-> category,
                         selectedYear |-> year]
            /\ transactions' = saved
            /\ rules' = pass.rules
            /\ output' = [recategorized |-> pass.updated,
                          transactions |-> shownTransactions(saved, year),
                          yearSummary |-> getYearSummary(saved, year)]

\* confirmTransaction(id) on a transaction of the shown year
ConfirmTransaction ==
    /\ steps < MaxSteps
    /\ \E year \in Years :
        \E shown \in {shownTransactions(transactions, year)} :
        \E k \in 1..Len(shown) :
        \E transaction \in {shown[k]} :
        \E confirmed \in
               {updateTransaction(transactions, transaction.id,
                    [isUserConfirmed |-> TRUE, confidence |-> 200])} :
            /\ steps' = steps + 1
            /\ op' = "confirmTransaction"
            /\ input' = [id |-> transaction.id, selectedYear |-> year]
            /\ transactions' = confirmed
            /\ rules' = learnFromCorrection(rules, transaction.description,
                                            transaction.category,
                                            <<transaction.amount>>)
            /\ output' = [transactions |-> shownTransactions(confirmed, year),
                          yearSummary |-> getYearSummary(confirmed, year)]

\* refreshData: categorizationService.initialize(true), storageService.initialize(true)
RefreshData ==
    /\ steps < MaxSteps
    /\ steps' = steps + 1
    /\ op' = "refreshData"
    /\ input' = <<>>
    /\ rules' = seededRules
    /\ output' = <<>>
    /\ UNCHANGED transactions

\* loadMockData: clearAll, generateMockData, importTransactions
LoadMockData ==
    /\ steps < MaxSteps
    /\ \E day \in MockDays, delay \in MockDelays :
        \E mock \in {generateMockData(rules, day, delay)} :
        \E imported \in {importTransactions(<<>>, mock.transactions)} :
            /\ steps' = steps + 1
            /\ op' = "loadMockData"
            /\ input' = mock.transactions
            /\ transactions' = imported.transactions
            /\ rules' = mock.rules
            /\ output' = [added |-> imported.added, duplicates |-> imported.duplicates]

\* updateYearData(year), as run when the user selects a year
UpdateYearData ==
    \E year \in Years :
        /\ steps < MaxSteps
        /\ steps' = steps + 1
        /\ op' = "updateYearData"
        /\ input' = year
        /\ output' = [transactions |-> shownTransactions(transactions, year),
                      yearSummary |-> getYearSummary(transactions, year)]
        /\ UNCHANGED <<rules, transactions>>

Next ==
    \/ (SyncPayPal /\ UNCHANGED surroundings)
    \/ (UpdateTransactionCategory /\ UNCHANGED surroundings)
    \/ (ConfirmTransaction /\ UNCHANGED surroundings)
    \/ (RefreshData /\ UNCHANGED surroundings)
    \/ (LoadMockData /\ UNCHANGED surroundings)
    \/ (UpdateYearData /\ UNCHANGED surroundings)

Spec == Init /\ [][Next]_vars

\* the transactions the totals are meant to be made of: no duplicates, no transfers
countedTransactions(stored) ==
    SelectSeq(stored, LAMBDA t : /\ ~t.isDuplicate
                                 /\ t.category /= "transfer"
                                 /\ t.type /= "transfer")

\* C1: the summary of a year is made of the transactions of that year that are not
\* flagged isDuplicate and have neither the category nor the type transfer: totals,
\* balance and every per-category total and count are those of these transactions.
C1_SummaryExcludesDuplicatesAndTransfers ==
    op = "updateYearData" =>
        output.yearSummary = getYearSummary(countedTransactions(transactions), input)

RECURSIVE sumOfTotals(_)
sumOfTotals(summaries) ==
    IF Len(summaries) = 0 THEN 0 ELSE summaries[1].total + sumOfTotals(Tail(summaries))

\* C2: in every summary the totals of incomeByCategory add up to totalIncome and the
\* totals of expenseByCategory add up to totalExpense.
C2_CategoryTotalsAddUp ==
    op = "updateYearData" =>
        /\ sumOfTotals(output.yearSummary.incomeByCategory)
           = output.yearSummary.totalIncome
        /\ sumOfTotals(output.yearSummary.expenseByCategory)
           = output.yearSummary.totalExpense

\* C5: a stored transaction has confidence 1.0 only if it is user-confirmed or
\* manually categorized.
C5_FullConfidenceOnlyConfirmed ==
    \A i \in 1..Len(transactions) :
        transactions[i].confidence = 200 =>
            (transactions[i].isUserConfirmed \/ transactions[i].isManuallyCategized)

\* the class of a category, named as the type it calls for
classOf(category) ==
    IF category \in Range(INCOME_CATEGORIES) THEN "income"
    ELSE IF category \in Range(EXPENSE_CATEGORIES) THEN "expense"
    ELSE "transfer"

\* C7: the type of every stored transaction is the class of its category: income for
\* an income category, expense for an expense category, transfer for transfer.
C7_TypeAgreesWithCategory ==
    \A i \in 1..Len(transactions) :
        transactions[i].type = classOf(transactions[i].category)

\* a transaction the user confirmed or categorized by hand
isConfirmed(t) == t.isUserConfirmed \/ t.isManuallyCategized

\* C13: the pass of recategorizeUnconfirmed that updateTransactionCategory runs over
\* the stored transactions changes neither category, type nor confidence of a
\* transaction that is confirmed or categorized by hand when the pass runs (the
\* transactions confirmed before, and the one just corrected), and the list the pass
\* returns holds no such transaction.
C13_ConfirmedNotRecategorized ==
    [][op' = "updateTransactionCategory" =>
        /\ Len(transactions') = Len(transactions)
        /\ \A i \in 1..Len(transactions) :
                /\ (isConfirmed(transactions[i]) /\ transactions[i].id /= input'.id)
                   => /\ transactions'[i].category = transactions[i].category
                      /\ transactions'[i].type = transactions[i].type
                      /\ transactions'[i].confidence = transactions[i].confidence
                /\ transactions[i].id = input'.id
                   => /\ transactions'[i].category = input'.category
                      /\ transactions'[i].type
                            = typeFor(input'.category, transactions[i].amount)
                      /\ transactions'[i].confidence = 200
        /\ \A k \in 1..Len(output'.recategorized) :
                /\ ~isConfirmed(output'.recategorized[k])
                /\ output'.recategorized[k].id /= input'.id]_vars

\* C13 witness: the pass of a correction left a confirmed transaction with a category
\* that the rules the pass ran with do not give it.
C13_Witness ==
    /\ op = "updateTransactionCategory"
    /\ \E i \in 1..Len(transactions) :
            /\ transactions[i].id = input.id
            /\ isConfirmed(transactions[i])
            /\ categorize(rules, transactions[i].description,
                          transactions[i].amount).category /= transactions[i].category

\* every stored transaction that is not confirmed has the category the rules rs give
\* it, as after a pass of recategorizeUnconfirmed with these rules
recategorized(rs, stored) ==
    \A i \in 1..Len(stored) :
        ~isConfirmed(stored[i])
        => categorize(rs, stored[i].description, stored[i].amount).category
           = stored[i].category

\* C14: a correction or a confirmation that changes the rule store is followed, before
\* it completes, by a recategorization pass over the stored transactions that are not
\* confirmed: when it completes, each of them has the category the new rules give it.
C14_RuleMutationFollowedByPass ==
    [][(op' \in {"updateTransactionCategory", "confirmTransaction"} /\ rules' /= rules)
       => recategorized(rules', transactions')]_vars

\* C14, for corrections alone: a correction that changes the rule store leaves every
\* stored transaction that is not confirmed with the category the new rules give it.
C14_CorrectionFollowedByPass ==
    [][(op' = "updateTransactionCategory" /\ rules' /= rules)
       => recategorized(rules', transactions')]_vars

(***************************************************************************)
(* SpecCorrection: corrections and confirmations over a filled store       *)
(***************************************************************************)
MaxCorrections == 2    \* corrections and confirmations in a run

\* the stores after a first synchronisation or after loading the mock data
FilledStores ==
    {importTransactions(<<>>,
        getPayPalTransactions(seededRules, data).transactions).transactions :
            data \in PayPalFeeds \ {<<>>}}
    \cup {importTransactions(<<>>,
            generateMockData(seededRules, day, delay).transactions).transactions :
                day \in MockDays, delay \in MockDelays}

InitCorrection ==
    /\ rules = seededRules
    /\ transactions \in FilledStores
    /\ op = "init"
    /\ input = <<>>
    /\ output = <<>>
    /\ steps = 0
    /\ surroundingsAtStart

NextCorrection ==
    \/ (steps < MaxCorrections /\ UpdateTransactionCategory /\ UNCHANGED surroundings)
    \/ (steps < MaxCorrections /\ ConfirmTransaction /\ UNCHANGED surroundings)

SpecCorrection == InitCorrection /\ [][NextCorrection]_vars

\* a rule without the count of its matches, which every categorize call raises
uncounted(r) == [r EXCEPT !.matchCount = 0]

\* the position in the store of the transaction with this id
stored(id) == findIndex(transactions, id)

\* C15: updateTransactionCategory(id, c) on a stored transaction sets its category to
\* c, its type to transfer for the transfer category and else by the sign of the
\* amount, isManuallyCategized and isUserConfirmed, and confidence 1.0.  Then the rules
\* are, but for their match counts, those of learnFromCorrection(description, c,
\* amount) on the rules before; then
\* every other stored transaction that is not confirmed has the category, and where
\* that changed the confidence and type, that these rules give it, in the store and in
\* the list of the re-categorized, the confirmed ones are as before; and the summary
\* and the list shown are those of the store after the pass.  The corrected
\* transaction is not among the re-categorized.
C15_CorrectionLearnsRecategorizesRefreshes ==
    [][op' = "updateTransactionCategory" =>
        \A i \in {stored(input'.id)}, c \in {input'.category} :
        \A learned \in {learnFromCorrection(rules, transactions[i].description, c,
                                             <<transactions[i].amount>>)} :
        \A given \in {[j \in 1..Len(transactions) |->
                            categorize(learned, transactions[j].description,
                                       transactions[j].amount)]} :
        \A changed \in {{j \in 1..Len(transactions) :
                            /\ j /= i
                            /\ ~isConfirmed(transactions[j])
                            /\ given[j].category /= transactions[j].category}} :
            /\ i /= 0
            /\ Len(transactions') = Len(transactions)
            /\ transactions'[i] =
                    [transactions[i] EXCEPT
                        !.category = c,
                        !.type = IF c = "transfer" THEN "transfer"
                                 ELSE IF transactions[i].amount >= 0 THEN "income"
                                 ELSE "expense",
                        !.isManuallyCategized = TRUE,
                        !.isUserConfirmed = TRUE,
                        !.confidence = 200]
            /\ {uncounted(r) : r \in Range(rules')}
               = {uncounted(r) : r \in Range(learned)}
            /\ \A j \in changed :
                    transactions'[j] =
                        [transactions[j] EXCEPT
                            !.category = given[j].category,
                            !.confidence = given[j].confidence,
                            !.type = IF given[j].category = "transfer" THEN "transfer"
                                     ELSE IF transactions[j].amount >= 0 THEN "income"
                                     ELSE "expense"]
            /\ \A j \in (1..Len(transactions)) \ (changed \cup {i}) :
                    transactions'[j] = transactions[j]
            /\ {output'.recategorized[k] : k \in 1..Len(output'.recategorized)}
               = {transactions'[j] : j \in changed}
            /\ output'.yearSummary = getYearSummary(transactions', input'.selectedYear)
            /\ output'.transactions
               = shownTransactions(transactions', input'.selectedYear)]_vars

\* C15 witness: a correction to the transfer category whose pass re-categorized
\* another stored transaction.
C15_Witness ==
    /\ op = "updateTransactionCategory"
    /\ input.category = "transfer"
    /\ transactions[stored(input.id)].type = "transfer"
    /\ transactions[stored(input.id)].confidence = 200
    /\ Len(output.recategorized) > 0
    /\ output.recategorized[1].id /= input.id

\* C16: no operation of the application (synchronisation and import, correction,
\* confirmation, recategorization, refreshData, loading the mock data, selecting a
\* year; none of them is deleteRule or resetToDefaults) removes a rule from the rule
\* store: every rule of the store before a step, the learned ones included, is in the
\* store after it.
C16_RulesAreNeverDropped ==
    [][\A k \in 1..Len(rules) :
          \E n \in 1..Len(rules') :
              /\ rules'[n].id = rules[k].id
              /\ rules'[n].isUserDefined = rules[k].isUserDefined]_vars

\* C17: a summary is computed only over stored transactions that have passed the
\* linker: when updateYearData computes the summary of a year, markDuplicates applied
\* to the stored set flags no stored transaction of that year that the store does not
\* flag already, neither as a duplicate nor as a balance transfer.
C17_SummaryOnlyOverLinkedTransactions ==
    op = "updateYearData" =>
        \A linked \in {markDuplicates(transactions)} :
            \A i \in 1..Len(transactions) :
                getFullYear(transactions[i].date) = input
                => /\ linked[i].isDuplicate = transactions[i].isDuplicate
                   /\ linked[i].isGuthabenTransfer = transactions[i].isGuthabenTransfer

(***************************************************************************)
(* SpecFee: learning a protection fee, from the seeded or an empty store   *)
(***************************************************************************)
MaxFeeSteps == 2    \* operations in a run

FeeAmounts == {40000, 50000, 52000, 60000, -50000}

\* the rule store after initialize: the seeded rules, or none when loading failed
InitFee ==
    /\ rules \in {seededRules, <<>>}
    /\ transactions = <<>>
    /\ op = "init"
    /\ input = <<>>
    /\ output = <<>>
    /\ steps = 0
    /\ surroundingsAtStart

LearnFee ==
    \E d \in FeeTexts, a \in FeeAmounts :
        /\ steps < MaxFeeSteps
        /\ steps' = steps + 1
        /\ rules' = learnFromCorrection(rules, d, "protection_fee", <<a>>)
        /\ op' = "learnFromCorrection"
        /\ input' = [description |-> d, category |-> "protection_fee", amount |-> a]
        /\ output' = <<>>
        /\ UNCHANGED transactions

CategorizeFee ==
    \E d \in FeeTexts, a \in FeeAmounts :
        \E r \in {categorize(rules, d, a)} :
            /\ steps < MaxFeeSteps
            /\ steps' = steps + 1
            /\ rules' = r.rules
            /\ op' = "categorize"
            /\ input' = [description |-> d, amount |-> a]
            /\ output' = [category |-> r.category, confidence |-> r.confidence,
                          rule |-> r.rule]
            /\ UNCHANGED transactions

NextFee ==
    \/ (LearnFee /\ UNCHANGED surroundings)
    \/ (CategorizeFee /\ UNCHANGED surroundings)

SpecFee == InitFee /\ [][NextFee]_vars

\* the descriptions and amounts the claim about learned protection fees speaks of
feeWord == "schutzgebühr"
matchesTransferRule(rs, d) ==
    \E k \in 1..Len(rs) : rs[k].category = "transfer" /\ test(rs[k].pattern, lowerCaseOf[d])
learnedFee == /\ steps = 1
              /\ op = "learnFromCorrection"
              /\ feeWord \in Range(keywordsOf[input.description])
              /\ abs(input.amount) >= 40000 /\ abs(input.amount) <= 60000
categorizesFee == /\ op' = "categorize"
                  /\ includes(lowerCaseOf[input'.description], feeWord)
                  /\ ~matchesTransferRule(rules, input'.description)
                  /\ input'.amount >= 40000 /\ input'.amount <= 60000
returnsFee == output'.category = "protection_fee" /\ output'.confidence > 20

\* C18 as stated: from the seeded or the empty rule store, after
\* learnFromCorrection(d, protection_fee, a) with the word Schutzgebühr in d and |a| in
\* [400, 600], categorize(d', a') returns protection_fee with a confidence above 0.1
\* for every d' with Schutzgebühr that matches no transfer rule and a' in [400, 600].
C18_LearnedFeeIsRecognized ==
    [][(learnedFee /\ categorizesFee) => returnsFee]_vars

\* C18, amended: the same, from the seeded rule store for every such d, and from the
\* empty one for the d that have Schutzgebühr among their first three keywords.
C18_LearnedFeeIsRecognizedByTopKeywords ==
    [][(/\ learnedFee
        /\ categorizesFee
        /\ \/ \E k \in 1..Len(rules) : rules[k].id = <<"default", 4>>
           \/ feeWord \in Range(SubSeq(keywordsOf[input.description], 1,
                                        min(3, Len(keywordsOf[input.description])))))
       => returnsFee]_vars

\* C18 witness: after learning from an empty store, 'Schutzgebühr Rocky' of 520 was
\* categorized as a protection fee by the one learned rule.
C18_Witness ==
    /\ op = "categorize"
    /\ steps = 2
    /\ input = [description |-> "Schutzgebühr Rocky", amount |-> 52000]
    /\ output.category = "protection_fee"
    /\ Len(rules) = 1
    /\ rules[1].isUserDefined
    /\ rules[1].minAmount = <<400>> /\ rules[1].maxAmount = <<600>>

(***************************************************************************)
(* SpecCsv: one import of a Volksbank export                               *)
(***************************************************************************)
MaxCsvRows == 2     \* data rows of an export
MaxCsvSteps == 1    \* imports in a run

\* the header line of an export
CsvHeader == "Bezeichnung Auftragskonto;IBAN Auftragskonto;BIC Auftragskonto;Bankname Auftragskonto;Buchungstag;Valutadatum;Name Zahlungsbeteiligter;IBAN Zahlungsbeteiligter;BIC (SWIFT-Code) Zahlungsbeteiligter;Buchungstext;Verwendungszweck;Betrag"

\* The data lines of the model: a purchase, a donation with a thousand separator and
\* no counterparty, a line without an amount, one with an amount of letters, one
\* without a date, one with a date of letters, one with too few columns, and a PayPal
\* debit.
CsvLines == <<
    ";;;;10.01.2024;;Zooplus AG;;;;Zooplus Bestellung;-45,99",
    ";;;;15.01.2025;;;;;;Spende Tierheim;1.250,00",
    ";;;;11.01.2024;;Zooplus AG;;;;Zooplus Bestellung;",
    ";;;;11.01.2024;;Zooplus AG;;;;Zooplus Bestellung;abc",
    ";;;;;;Zooplus AG;;;;Zooplus Bestellung;-45,99",
    ";;;;xx.yy.zzzz;;Zooplus AG;;;;Zooplus Bestellung;-45,99",
    "Zooplus AG;-45,99",
    ";;;;11.01.2024;;PayPal Europe S.a.r.l.;;;;PAYPAL *ZOOPLUS;-45,99" >>

\* the exports: the header and up to MaxCsvRows distinct data lines, in any order
CsvContents ==
    LET picks == UNION {[1..n -> 1..Len(CsvLines)] : n \in 0..MaxCsvRows}
    IN  {<<CsvHeader>> \o [i \in DOMAIN f |-> CsvLines[f[i]]] :
            f \in {g \in picks : \A i, j \in DOMAIN g : i /= j => g[i] /= g[j]}}

\* the days an import may run on
Today == {420}

\* the transactions an import may be given as existing: none, or those a former
\* import of the purchase returned
ExistingTransactions ==
    {<<>>} \cup {importVolksbankCSV(seededRules, <<CsvHeader, CsvLines[1]>>, <<>>, FALSE,
                                    today).result.transactions : today \in Today}

InitCsv ==
    /\ rules = seededRules
    /\ transactions \in ExistingTransactions
    /\ op = "init"
    /\ input = <<>>
    /\ output = <<>>
    /\ steps = 0
    /\ surroundingsAtStart

ImportVolksbankCSV ==
    /\ steps < MaxCsvSteps
    /\ \E csvContent \in CsvContents, skipPayPalTransfers \in BOOLEAN, today \in Today :
        \E r \in {importVolksbankCSV(rules, csvContent, transactions,
                                     skipPayPalTransfers, today)} :
            /\ steps' = steps + 1
            /\ op' = "importVolksbankCSV"
            /\ input' = [csvContent |-> csvContent,
                         skipPayPalTransfers |-> skipPayPalTransfers]
            /\ output' = r.result
            /\ rules' = r.rules
            /\ UNCHANGED transactions

NextCsv ==
    \/ (ImportVolksbankCSV /\ UNCHANGED surroundings)

SpecCsv == InitCsv /\ [][NextCsv]_vars

\* an amount cell in the German format: an optional sign, digits with or without
\* thousand separators, and at most one comma followed by digits
wellFormedAmount(cell) ==
    \A plain \in {selectChars(cell, {i \in 1..Len(cell) : Char(cell, i) /= "."}, 1,
                              Len(cell))} :
    \A start \in {IF Len(plain) > 0 /\ Char(plain, 1) = "-" THEN 2 ELSE 1} :
    \A whole \in {digitRun(plain, start)} :
        /\ whole >= 1
        /\ \/ start + whole > Len(plain)
           \/ /\ Char(plain, start + whole) = ","
              /\ digitRun(plain, start + whole + 1) >= 1
              /\ start + whole + digitRun(plain, start + whole + 1) = Len(plain)

\* a date cell of the form DD.MM.YYYY that names a day
wellFormedDate(cell) ==
    /\ cell /= ""
    /\ Cardinality({i \in 1..Len(cell) : Char(cell, i) = "."}) = 2
    /\ parseGermanDate(cell, 0) /= <<>>

\* the data rows of the last import, and those among them with enough columns whose
\* amount or date is missing or unparseable
dataRows == Tail(parseCSV(input.csvContent))
malformedRows ==
    {k \in 1..Len(dataRows) :
        /\ Len(dataRows[k]) >= 12
        /\ ~(wellFormedAmount(dataRows[k][AMOUNT])
             /\ wellFormedDate(dataRows[k][BOOKING_DATE]))}
importedRows == {output.transactions[i].id[2] : i \in 1..Len(output.transactions)}

\* C20: importVolksbankCSV imports no row whose amount or date is missing or
\* unparseable and reports each of them in errors, without failing as a whole; every
\* other row with enough columns, that is no known duplicate and no PayPal line left
\* out on request, is imported.
C20_MalformedRowsRejectedRestImported ==
    (op = "importVolksbankCSV" /\ malformedRows /= {}) =>
        /\ malformedRows \cap importedRows = {}
        /\ Len(output.errors)
           >= Cardinality(malformedRows)
              + Cardinality({k \in 1..Len(dataRows) : Len(dataRows[k]) < 12})
        /\ output.success
        /\ \A k \in (1..Len(dataRows)) \ malformedRows :
                (/\ Len(dataRows[k]) >= 12
                 /\ ~(isPayPalTransferRow(dataRows[k]) /\ input.skipPayPalTransfers)
                 /\ \A i \in 1..Len(transactions) :
                        transactions[i].externalId /= generateExternalId(dataRows[k]))
                => k \in importedRows

\* the rules of the store that match the last description and satisfy the conditions
\* on the class and the range of the last amount
applyingRules(rs) ==
    {k \in DOMAIN rs : ruleApplies(rs[k], input'.description, input'.amount)}

MaxPatternSteps == 2    \* operations in a run

AddedCategories == {"donation", "foster_care"}

InitPattern ==
    /\ rules = seededRules
    /\ transactions = <<>>
    /\ op = "init"
    /\ input = <<>>
    /\ output = <<>>
    /\ steps = 0
    /\ surroundingsAtStart

\* addRule(pattern, category)
AddRule ==
    /\ steps < MaxPatternSteps
    /\ \E pattern \in AddedPatterns, category \in AddedCategories :
            /\ steps' = steps + 1
            /\ rules' = addRule(rules, pattern, category, TRUE, <<>>, <<>>)
            /\ op' = "addRule"
            /\ input' = [pattern |-> pattern, category |-> category]
            /\ output' = <<>>
            /\ UNCHANGED transactions

\* categorize(description, amount) on the store as it stands
CategorizeAdded ==
    /\ steps < MaxPatternSteps
    /\ \E d \in Descriptions, a \in Amounts :
        \E r \in {categorize(rules, d, a)} :
            /\ steps' = steps + 1
            /\ rules' = r.rules
            /\ op' = "categorize"
            /\ input' = [description |-> d, amount |-> a]
            /\ output' = [category |-> r.category, confidence |-> r.confidence,
                          rule |-> r.rule]
            /\ UNCHANGED transactions

NextPattern ==
    \/ (AddRule /\ UNCHANGED surroundings)
    \/ (CategorizeAdded /\ UNCHANGED surroundings)

SpecPattern == InitPattern /\ [][NextPattern]_vars

\* the rules of a store whose pattern compiles, in store order
compilingRules(rs) == SelectSeq(rs, LAMBDA r : r.pattern \in validPatterns)

\* C21: categorize never aborts on a rule whose pattern is no regular expression: it
\* returns a category with a confidence between 0.1 and 0.99, the same ones it returns
\* on the store without the malformed rules, and it leaves the malformed rules as they
\* were.
C21_MalformedRulesAreSkipped ==
    [][op' = "categorize" =>
        \A clean \in {categorize(compilingRules(rules), input'.description,
                                  input'.amount)} :
            /\ output'.category = clean.category
            /\ output'.confidence = clean.confidence
            /\ output'.confidence \in 20..198
            /\ output'.category
                    \in Range(INCOME_CATEGORIES) \cup Range(EXPENSE_CATEGORIES)
                        \cup Range(TRANSFER_CATEGORIES)
            /\ compilingRules(rules') = clean.rules
            /\ \A k \in 1..Len(rules) :
                    rules[k].pattern \notin validPatterns => rules'[k] = rules[k]]_vars

\* categorize has run on a store with a rule whose pattern does not compile, whose
\* text is in the description and whose category fits the sign of the amount, and has
\* returned on a rule that stands behind it in priority
C21_Witness ==
    /\ op = "categorize"
    /\ input.description = "Zooplus Bestellung"
    /\ input.amount < 0
    /\ output.rule /= 0
    /\ \E k \in 1..Len(rules) :
            /\ rules[k].pattern = "zooplus("
            /\ rules[k].category = "foster_care"
            /\ rules[k].matchCount = 0
            /\ rules[k].priority > rules[output.rule].priority

(***************************************************************************)
(* SpecPersist: the services' memory and what AsyncStorage holds.  A       *)
(* handler that awaits its write returns when the write has settled; the   *)
(* write of categorize is not awaited.  A write may be rejected by the     *)
(* device, which saveRules and saveTransactions catch and log.             *)
(***************************************************************************)
MaxPersistSteps == 2    \* operations that return in a run

PersistDescriptions == {"Zooplus Bestellung", "Schutzgebühr Luna"}
PersistAmounts == {-20000, 50000}
PersistCategories == {"protection_fee", "foster_care"}
PersistBatches == {<<ImportPool[1]>>, <<ImportPool[1], ImportPool[3]>>}

\* JSON.stringify(collection): the text kept under a key
stringify(collection) == <<"json", collection>>

\* AsyncStorage.setItem(key, JSON.stringify(collection)), not settled yet
setItem(key, collection, awaited) ==
    [key |-> key, value |-> stringify(collection), awaited |-> awaited]

InitPersist ==
    /\ rules = seededRules
    /\ transactions = <<>>
    /\ op = "init"
    /\ input = <<>>
    /\ output = <<>>
    /\ steps = 0
    /\ asyncStorage = [rules |-> stringify(seededRules), transactions |-> <<>>,
                       userId |-> ""]
    /\ pending = <<>>
    /\ supabase = <<>>
    /\ running = <<>>

\* categorize(description, amount): on a match this.saveRules() is called and not
\* awaited, and categorize returns
CategorizeAndSave ==
    /\ steps < MaxPersistSteps
    /\ running = <<>>
    /\ \E d \in PersistDescriptions, a \in PersistAmounts :
        \E r \in {categorize(rules, d, a)} :
            /\ steps' = steps + 1
            /\ rules' = r.rules
            /\ op' = "categorize"
            /\ input' = [description |-> d, amount |-> a]
            /\ output' = [category |-> r.category, confidence |-> r.confidence,
                          rule |-> r.rule]
            /\ pending' = IF r.rule = 0 THEN pending
                          ELSE Append(pending, setItem("rules", r.rules, FALSE))
            /\ UNCHANGED <<transactions, asyncStorage, supabase, running>>

\* learnFromCorrection(description, category, amount) up to its first await: the
\* saveRules of addRule where a rule is created, its own saveRules otherwise
LearnAndSave ==
    /\ steps < MaxPersistSteps
    /\ running = <<>>
    /\ \E d \in PersistDescriptions, c \in PersistCategories, a \in PersistAmounts :
        \E learned \in {learnFromCorrection(rules, d, c, <<a>>)} :
            /\ rules' = learned
            /\ pending' = Append(pending, setItem("rules", learned, TRUE))
            /\ running' = <<[op |-> "learnFromCorrection",
                             input |-> [description |-> d, category |-> c,
                                        amount |-> a],
                             output |-> <<>>,
                             key |-> "rules",
                             writesLeft |-> IF Len(learned) > Len(rules) THEN 1 ELSE 0]>>
            /\ UNCHANGED <<transactions, op, input, output, steps, asyncStorage,
                           supabase>>

\* storageService.updateTransaction(id, updates) up to the await of saveTransactions
UpdateTransactionAndSave ==
    /\ steps < MaxPersistSteps
    /\ running = <<>>
    /\ \E k \in 1..Len(transactions), category \in PersistCategories :
        \E updated \in {updateTransaction(transactions, transactions[k].id,
                                          [category |-> category])} :
            /\ transactions' = updated
            /\ pending' = Append(pending, setItem("transactions", updated, TRUE))
            /\ running' = <<[op |-> "updateTransaction",
                             input |-> [id |-> transactions[k].id,
                                        category |-> category],
                             output |-> <<>>,
                             key |-> "transactions",
                             writesLeft |-> 0]>>
            /\ UNCHANGED <<rules, op, input, output, steps, asyncStorage, supabase>>

\* storageService.importTransactions(newTransactions): it returns at once where
\* nothing was added, and awaits saveTransactions otherwise
ImportTransactionsAndSave ==
    /\ steps < MaxPersistSteps
    /\ running = <<>>
    /\ \E newTransactions \in PersistBatches :
        \E r \in {importTransactions(transactions, newTransactions)} :
            /\ transactions' = r.transactions
            /\ IF r.added > 0
               THEN /\ pending' = Append(pending,
                                         setItem("transactions", r.transactions, TRUE))
                    /\ running' = <<[op |-> "importTransactions",
                                     input |-> newTransactions,
                                     output |-> [added |-> r.added,
                                                 duplicates |-> r.duplicates],
                                     key |-> "transactions",
                                     writesLeft |-> 0]>>
                    /\ UNCHANGED <<op, input, output, steps>>
               ELSE /\ steps' = steps + 1
                    /\ op' = "importTransactions"
                    /\ input' = newTransactions
                    /\ output' = [added |-> r.added, duplicates |-> r.duplicates]
                    /\ UNCHANGED <<pending, running>>
            /\ UNCHANGED <<rules, asyncStorage, supabase>>

\* The oldest setItem settles: the device takes the text or rejects it, which the
\* catch of saveRules and saveTransactions logs.  The handler that awaited it goes on:
\* to its next saveRules, or back to its caller.
SettleSetItem ==
    /\ pending /= <<>>
    /\ \E resolved \in BOOLEAN :
        \E write \in {Head(pending)} :
            /\ asyncStorage' = IF resolved
                               THEN [asyncStorage EXCEPT ![write.key] = write.value]
                               ELSE asyncStorage
            /\ IF ~write.awaited
               THEN /\ pending' = Tail(pending)
                    /\ UNCHANGED <<op, input, output, steps, running>>
               ELSE IF running[1].writesLeft > 0
               THEN /\ pending' = Append(Tail(pending),
                                         setItem(running[1].key, rules, TRUE))
                    /\ running' = <<[running[1] EXCEPT !.writesLeft = @ - 1]>>
                    /\ UNCHANGED <<op, input, output, steps>>
               ELSE /\ pending' = Tail(pending)
                    /\ running' = <<>>
                    /\ op' = running[1].op
                    /\ input' = running[1].input
                    /\ output' = running[1].output
                    /\ steps' = steps + 1
            /\ UNCHANGED <<rules, transactions, supabase>>

NextPersist ==
    \/ CategorizeAndSave
    \/ LearnAndSave
    \/ UpdateTransactionAndSave
    \/ ImportTransactionsAndSave
    \/ SettleSetItem

SpecPersist == InitPersist /\ [][NextPersist]_vars

\* an operation returns to its caller, having changed a collection
returnsAfterMutation ==
    /\ steps' = steps + 1
    /\ op' = "categorize" => output'.rule /= 0
    /\ op' = "importTransactions" => output'.added > 0

\* C22: when categorize (having counted a match), learnFromCorrection,
\* updateTransaction or importTransactions (having added a row) returns to its caller,
\* the device holds the collection as the service holds it in memory: the write is
\* neither still under way nor lost.
C22_PersistedWhenReturned ==
    [][returnsAfterMutation =>
        /\ op' \in {"categorize", "learnFromCorrection"}
                => asyncStorage'.rules = stringify(rules')
        /\ op' \in {"updateTransaction", "importTransactions"}
                => asyncStorage'.transactions = stringify(transactions')]_vars

\* the same for the operations that await their write, in the runs where the device
\* rejects none: these hold the collection when they return
C22_AwaitedWritesLandUnlessRejected ==
    [][(returnsAfterMutation /\ op' /= "categorize" /\ pending = <<Head(pending)>>)
        => \/ asyncStorage' = asyncStorage
           \/ /\ op' = "learnFromCorrection" => asyncStorage'.rules = stringify(rules')
              /\ op' \in {"updateTransaction", "importTransactions"}
                    => asyncStorage'.transactions = stringify(transactions')]_vars

(***************************************************************************)
(* SpecOverlap: updateTransactionCategory and confirmTransaction as the    *)
(* screen starts them, each running from one await to the next.  A handler *)
(* reads the transaction from the list on the screen, as of the last       *)
(* updateYearData.  One updateTransactionCategory is under way at a time;  *)
(* confirmations start whenever the user taps.                             *)
(***************************************************************************)
MaxOverlapCalls == 2    \* handlers started in a run

OverlapCategories == {"veterinary"}

\* three purchases of about 46 EUR, as a synchronisation has stored them
OverlapRows == <<
    [id |-> "PP1", date |-> 10, amount |-> -4599, counterparty_name |-> "Zooplus AG",
     description |-> "Zooplus Bestellung", category |-> ""],
    [id |-> "PP7", date |-> 14, amount |-> -4650, counterparty_name |-> "Zooplus AG",
     description |-> "Zooplus Bestellung", category |-> ""],
    [id |-> "PP8", date |-> 15, amount |-> -4700, counterparty_name |-> "Zooplus AG",
     description |-> "Zooplus Bestellung", category |-> ""] >>

OverlapFeeds == {SubSeq(OverlapRows, 1, n) : n \in 2..Len(OverlapRows)}

\* updateYearData(selectedYear): what the screen holds afterwards
updateYearData(list, year) ==
    [transactions |-> shownTransactions(list, year),
     yearSummary |-> getYearSummary(list, year),
     selectedYear |-> year]

InitOverlap ==
    /\ \E data \in OverlapFeeds, year \in Years :
        \E fetched \in {getPayPalTransactions(seededRules, data)} :
            /\ rules = fetched.rules
            /\ transactions = importTransactions(<<>>, fetched.transactions).transactions
            /\ output = updateYearData(transactions, year)
    /\ op = "init"
    /\ input = <<>>
    /\ steps = 0
    /\ surroundingsAtStart

\* the handlers under way without the one at position i
others(i) == SubSeq(running, 1, i - 1) \o SubSeq(running, i + 1, Len(running))

\* a handler returns after updateYearData(selectedYear)
returnFrom(i) ==
    /\ running' = others(i)
    /\ steps' = steps + 1
    /\ op' = running[i].op
    /\ input' = [id |-> running[i].transaction.id, category |-> running[i].category]
    /\ output' = updateYearData(transactions', output.selectedYear)

\* updateTransactionCategory(id, category) up to its first await: the transaction is
\* looked up on the screen and storageService.updateTransaction has changed the store
StartUpdateTransactionCategory ==
    /\ steps + Len(running) < MaxOverlapCalls
    /\ \A i \in 1..Len(running) : running[i].op /= "updateTransactionCategory"
    /\ \E k \in 1..Len(output.transactions), category \in OverlapCategories :
        \E transaction \in {output.transactions[k]} :
            /\ transactions' =
                    updateTransaction(transactions, transaction.id,
                        [category |-> category,
                         type |-> typeFor(category, transaction.amount),
                         isManuallyCategized |-> TRUE,
                         isUserConfirmed |-> TRUE,
                         confidence |-> 200])
            /\ running' = Append(running,
                    [op |-> "updateTransactionCategory", pc |-> "learnFromCorrection",
                     transaction |-> transaction, category |-> category,
                     recategorized |-> <<>>, k |-> 1])
            /\ UNCHANGED <<rules, op, input, output, steps, asyncStorage, pending,
                           supabase>>

\* confirmTransaction(id) up to its first await
StartConfirmTransaction ==
    /\ steps + Len(running) < MaxOverlapCalls
    /\ \E k \in 1..Len(output.transactions) :
        \E transaction \in {output.transactions[k]} :
            /\ transactions' =
                    updateTransaction(transactions, transaction.id,
                        [isUserConfirmed |-> TRUE, confidence |-> 200])
            /\ running' = Append(running,
                    [op |-> "confirmTransaction", pc |-> "learnFromCorrection",
                     transaction |-> transaction, category |-> transaction.category,
                     recategorized |-> <<>>, k |-> 1])
            /\ UNCHANGED <<rules, op, input, output, steps, asyncStorage, pending,
                           supabase>>

\* updateTransactionCategory goes on after an await: to learnFromCorrection, then to
\* recategorizeUnconfirmed and the first updateTransaction of the loop, then to the
\* next updateTransaction, and after the loop to updateYearData
ResumeUpdateTransactionCategory ==
    \E i \in 1..Len(running) :
        /\ running[i].op = "updateTransactionCategory"
        /\ \/ /\ running[i].pc = "learnFromCorrection"
              /\ rules' = learnFromCorrection(rules, running[i].transaction.description,
                                              running[i].category,
                                              <<running[i].transaction.amount>>)
              /\ running' = [running EXCEPT ![i].pc = "recategorizeUnconfirmed"]
              /\ UNCHANGED <<transactions, op, input, output, steps>>
           \/ /\ running[i].pc = "recategorizeUnconfirmed"
              /\ \E pass \in {recategorizeUnconfirmed(rules,
                                                      getAllTransactions(transactions))} :
                    /\ rules' = pass.rules
                    /\ IF pass.updated = <<>>
                       THEN /\ transactions' = pass.transactions
                            /\ returnFrom(i)
                       ELSE /\ transactions' =
                                    saveRecategorized(pass.transactions,
                                                      <<pass.updated[1]>>, 1)
                            /\ running' = [running EXCEPT
                                              ![i].pc = "updateTransaction",
                                              ![i].recategorized = pass.updated,
                                              ![i].k = 2]
                            /\ UNCHANGED <<op, input, output, steps>>
           \/ /\ running[i].pc = "updateTransaction"
              /\ UNCHANGED rules
              /\ IF running[i].k > Len(running[i].recategorized)
                 THEN /\ UNCHANGED transactions
                      /\ returnFrom(i)
                 ELSE /\ transactions' =
                              saveRecategorized(transactions,
                                  <<running[i].recategorized[running[i].k]>>, 1)
                      /\ running' = [running EXCEPT ![i].k = @ + 1]
                      /\ UNCHANGED <<op, input, output, steps>>
        /\ UNCHANGED <<asyncStorage, pending, supabase>>

\* confirmTransaction goes on after an await: to learnFromCorrection, then to
\* updateYearData
ResumeConfirmTransaction ==
    \E i \in 1..Len(running) :
        /\ running[i].op = "confirmTransaction"
        /\ \/ /\ running[i].pc = "learnFromCorrection"
              /\ rules' = learnFromCorrection(rules, running[i].transaction.description,
                                              running[i].category,
                                              <<running[i].transaction.amount>>)
              /\ running' = [running EXCEPT ![i].pc = "updateYearData"]
              /\ UNCHANGED <<transactions, op, input, output, steps>>
           \/ /\ running[i].pc = "updateYearData"
              /\ UNCHANGED <<rules, transactions>>
              /\ returnFrom(i)
        /\ UNCHANGED <<asyncStorage, pending, supabase>>

NextOverlap ==
    \/ StartUpdateTransactionCategory
    \/ StartConfirmTransaction
    \/ ResumeUpdateTransactionCategory
    \/ ResumeConfirmTransaction

SpecOverlap == InitOverlap /\ [][NextOverlap]_vars

\* updateTransactionCategory(id, category) run from its call to its return with no
\* other handler in between: the rule store and the transactions it leaves
updateTransactionCategory(rs, list, transaction, category) ==
    LET corrected ==
            updateTransaction(list, transaction.id,
                [category |-> category,
                 type |-> typeFor(category, transaction.amount),
                 isManuallyCategized |-> TRUE,
                 isUserConfirmed |-> TRUE,
                 confidence |-> 200])
        learned == learnFromCorrection(rs, transaction.description, category,
                                       <<transaction.amount>>)
        pass == recategorizeUnconfirmed(learned, getAllTransactions(corrected))
    IN  [rules |-> pass.rules,
         transactions |-> saveRecategorized(pass.transactions, pass.updated, 1)]

\* confirmTransaction(id) run from its call to its return with no other handler in
\* between
confirmTransaction(rs, list, transaction) ==
    [rules |-> learnFromCorrection(rs, transaction.description, transaction.category,
                                   <<transaction.amount>>),
     transactions |-> updateTransaction(list, transaction.id,
                                        [isUserConfirmed |-> TRUE, confidence |-> 200])]

\* what one handler, run alone on the screen of the year, can make of a state
serialStep(state, year) ==
    LET shown == shownTransactions(state.transactions, year)
    IN  {updateTransactionCategory(state.rules, state.transactions, shown[k], category) :
            k \in 1..Len(shown), category \in OverlapCategories}
        \cup {confirmTransaction(state.rules, state.transactions, shown[k]) :
                k \in 1..Len(shown)}

\* the states n handlers reach when each starts after the one before has returned
RECURSIVE serialRuns(_, _, _)
serialRuns(from, year, n) ==
    IF n = 0 THEN from
    ELSE serialRuns(UNION {serialStep(state, year) : state \in from}, year, n - 1)

\* the states the specification starts in, as rule store and transactions
OverlapStarts ==
    {[rules |-> fetched.rules,
      transactions |-> importTransactions(<<>>, fetched.transactions).transactions] :
        fetched \in {getPayPalTransactions(seededRules, data) : data \in OverlapFeeds}}

serialOutcomes ==
    [year \in Years, n \in 0..MaxOverlapCalls |-> serialRuns(OverlapStarts, year, n)]

\* C23: whenever no handler is under way, the rule store and the transactions are
\* what the handlers that have returned would have left had each started after the
\* one before had returned; and a transaction the user has confirmed has the
\* confidence 1.0.
C23_OverlapsAreSerializable ==
    running = <<>> =>
        /\ [rules |-> rules, transactions |-> transactions]
                \in serialOutcomes[output.selectedYear, steps]
        /\ \A k \in 1..Len(transactions) :
                transactions[k].isUserConfirmed => transactions[k].confidence = 200

(***************************************************************************)
(* SpecReview: the review screen over a filled store.  A suggestion is     *)
(* applied with updateTransactionCategory as the update callback; manual   *)
(* edits go on beside it.                                                  *)
(***************************************************************************)
MaxReviewSteps == 2     \* applications and manual edits in a run

SuggestedCategories == {"veterinary", "transfer"}

\* the results a review can hold for a transaction the screen shows
ReviewResults(transaction) ==
    {[transactionId |-> transaction.id,
      originalCategory |-> transaction.category,
      suggestedCategory |-> suggestion,
      needsReview |-> flag] : suggestion \in SuggestedCategories, flag \in BOOLEAN}

\* the test of applySuggestedChanges on a result
isApplied(result) ==
    result.needsReview /\ result.suggestedCategory /= result.originalCategory

InitReview ==
    /\ rules = seededRules
    /\ transactions \in FilledStores
    /\ op = "init"
    /\ input = <<>>
    /\ output = <<>>
    /\ steps = 0
    /\ surroundingsAtStart

\* handleApplyChange(result) of the review screen: applySuggestedChanges([result],
\* transactions, onApplyChange) with updateTransactionCategory as onApplyChange
ApplySuggestedChanges ==
    /\ steps < MaxReviewSteps
    /\ \E year \in Years :
        \E shown \in {shownTransactions(transactions, year)} :
        \E k \in 1..Len(shown) :
        \E transaction \in {shown[k]} :
        \E result \in ReviewResults(transaction) :
        \E corrected \in
               {updateTransaction(transactions, transaction.id,
                    [category |-> result.suggestedCategory,
                     type |-> typeFor(result.suggestedCategory, transaction.amount),
                     isManuallyCategized |-> TRUE,
                     isUserConfirmed |-> TRUE,
                     confidence |-> 200])} :
        \E learned \in {learnFromCorrection(rules, transaction.description,
                            result.suggestedCategory, <<transaction.amount>>)} :
        \E pass \in {recategorizeUnconfirmed(learned, getAllTransactions(corrected))} :
        \E saved \in {saveRecategorized(pass.transactions, pass.updated, 1)} :
        \E learnedAgain \in {learnFromCorrection(pass.rules, transaction.description,
                                result.suggestedCategory, <<transaction.amount>>)} :
            /\ result.suggestedCategory /= result.originalCategory
            /\ steps' = steps + 1
            /\ op' = "applySuggestedChanges"
            /\ input' = [result |-> result, selectedYear |-> year]
            /\ transactions' = IF isApplied(result) THEN saved ELSE transactions
            /\ rules' = IF isApplied(result) THEN learnedAgain ELSE rules
            /\ output' = [appliedCount |-> IF isApplied(result) THEN 1 ELSE 0,
                          transactions |-> shownTransactions(transactions', year),
                          yearSummary |-> getYearSummary(transactions', year)]

NextReview ==
    \/ (ApplySuggestedChanges /\ UNCHANGED surroundings)
    \/ (steps < MaxReviewSteps /\ UpdateTransactionCategory /\ UNCHANGED surroundings)

SpecReview == InitReview /\ [][NextReview]_vars

\* C27: applying a review suggestion leaves the transactions and the rule store
\* (number of rules, priorities, matchCounts, amount ranges) that one manual
\* updateTransactionCategory on the same transaction with the same category leaves:
\* learning fires once per applied suggestion.
C27_SuggestionIsOneManualEdit ==
    [][(op' = "applySuggestedChanges" /\ output'.appliedCount = 1) =>
        \A manual \in {updateTransactionCategory(rules, transactions,
                            transactions[stored(input'.result.transactionId)],
                            input'.result.suggestedCategory)} :
            /\ transactions' = manual.transactions
            /\ rules' = manual.rules]_vars

(***************************************************************************)
(* SpecRemote: the store of a signed-in user.  The device holds a user id, *)
(* so every save pushes the transactions to the remote table and every     *)
(* initialize reads them back.  The remote store answers every call.       *)
(***************************************************************************)
MaxRemoteSteps == 2     \* user actions in a run

UserIds == {"user-1"}

\* the row pushToSupabase makes of a transaction
toRow(userId, t) ==
    [id |-> t.id, user_id |-> userId, date |-> t.date, amount |-> t.amount,
     type |-> t.type, category |-> t.category, description |-> t.description,
     counterparty |-> t.counterparty,
     is_manually_categorized |-> t.isManuallyCategized,
     confidence |-> t.confidence, source_account |-> t.sourceAccount,
     external_id |-> t.externalId, is_duplicate |-> t.isDuplicate,
     duplicate_reason |-> t.duplicateReason,
     linked_transaction_id |-> t.linkedTransactionId]

\* the transaction syncWithSupabase makes of a row: the fields the row does not
\* carry are undefined
fromRow(row) ==
    [id |-> row.id, sourceAccount |-> row.source_account, date |-> row.date,
     amount |-> row.amount, type |-> row.type, category |-> row.category,
     description |-> row.description, counterparty |-> row.counterparty,
     confidence |-> row.confidence, externalId |-> row.external_id,
     isManuallyCategized |-> row.is_manually_categorized,
     isUserConfirmed |-> FALSE,
     isDuplicate |-> row.is_duplicate, duplicateReason |-> row.duplicate_reason,
     linkedTransactionId |-> row.linked_transaction_id,
     isGuthabenTransfer |-> FALSE, linkedPaymentId |-> "",
     originalPaymentInfo |-> <<>>]

\* upsert(batch) on the table: a row with the id of a row of the batch is replaced,
\* the other rows of the batch are added
upsert(table, batch) ==
    [i \in 1..Len(table) |->
        IF \E j \in 1..Len(batch) : batch[j].id = table[i].id
        THEN batch[CHOOSE j \in 1..Len(batch) : batch[j].id = table[i].id]
        ELSE table[i]]
    \o SelectSeq(batch, LAMBDA row : \A i \in 1..Len(table) : table[i].id /= row.id)

\* pushToSupabase(userId, transactions): the table it leaves
pushToSupabase(table, userId, list) ==
    upsert(table, [k \in 1..Len(list) |-> toRow(userId, list[k])])

\* syncWithSupabase(userId): the transactions of the service afterwards
syncWithSupabase(list, table, userId) ==
    LET data == SelectSeq(table, LAMBDA row : row.user_id = userId)
        remoteTransactions == [k \in 1..Len(data) |-> fromRow(data[k])]
        localOnly ==
            SelectSeq(list, LAMBDA lt :
                ~\E k \in 1..Len(remoteTransactions) :
                    \/ remoteTransactions[k].id = lt.id
                    \/ /\ remoteTransactions[k].externalId /= ""
                       /\ remoteTransactions[k].externalId = lt.externalId)
    IN  IF Len(data) = 0 THEN list ELSE remoteTransactions \o localOnly

\* the state after the first import of a signed-in user
InitRemote ==
    /\ rules = seededRules
    /\ transactions \in FilledStores
    /\ op = "init"
    /\ input = <<>>
    /\ output = <<>>
    /\ steps = 0
    /\ \E userId \in UserIds :
        /\ asyncStorage = [rules |-> stringify(seededRules),
                           transactions |-> stringify(transactions),
                           userId |-> userId]
        /\ supabase = pushToSupabase(<<>>, userId, transactions)
    /\ pending = <<>>
    /\ running = <<>>

\* what saveRules and saveTransactions leave on the device and in the remote table
saved(rs, list) ==
    /\ asyncStorage' = [asyncStorage EXCEPT !.rules = stringify(rs),
                                            !.transactions = stringify(list)]
    /\ supabase' = IF asyncStorage.userId /= ""
                   THEN pushToSupabase(supabase, asyncStorage.userId, list)
                   ELSE supabase
    /\ UNCHANGED <<pending, running>>

\* updateTransactionCategory(id, category) of a signed-in user
CorrectAndPush ==
    /\ steps < MaxRemoteSteps
    /\ \E year \in Years, category \in PickedCategories :
        \E shown \in {shownTransactions(transactions, year)} :
        \E k \in 1..Len(shown) :
        \E after \in {updateTransactionCategory(rules, transactions, shown[k],
                                                 category)} :
            /\ steps' = steps + 1
            /\ op' = "updateTransactionCategory"
            /\ input' = [id |-> shown[k].id, category |-> category,
                         selectedYear |-> year]
            /\ transactions' = after.transactions
            /\ rules' = after.rules
            /\ output' = updateYearData(after.transactions, year)
            /\ saved(after.rules, after.transactions)

\* confirmTransaction(id) of a signed-in user
ConfirmAndPush ==
    /\ steps < MaxRemoteSteps
    /\ \E year \in Years :
        \E shown \in {shownTransactions(transactions, year)} :
        \E k \in 1..Len(shown) :
        \E after \in {confirmTransaction(rules, transactions, shown[k])} :
            /\ steps' = steps + 1
            /\ op' = "confirmTransaction"
            /\ input' = [id |-> shown[k].id, selectedYear |-> year]
            /\ transactions' = after.transactions
            /\ rules' = after.rules
            /\ output' = updateYearData(after.transactions, year)
            /\ saved(after.rules, after.transactions)

\* refreshData of a signed-in user: both services initialize(true), the storage
\* service reads the remote table
RefreshAndSync ==
    /\ steps < MaxRemoteSteps
    /\ \E year \in Years :
        \E synced \in {IF asyncStorage.userId /= ""
                        THEN syncWithSupabase(transactions, supabase, asyncStorage.userId)
                        ELSE transactions} :
            /\ steps' = steps + 1
            /\ op' = "refreshData"
            /\ input' = [selectedYear |-> year]
            /\ rules' = seededRules
            /\ transactions' = synced
            /\ output' = updateYearData(synced, year)
            /\ asyncStorage' = [asyncStorage EXCEPT !.rules = stringify(seededRules),
                                                    !.transactions = stringify(synced)]
            /\ UNCHANGED <<supabase, pending, running>>

NextRemote ==
    \/ CorrectAndPush
    \/ ConfirmAndPush
    \/ RefreshAndSync

SpecRemote == InitRemote /\ [][NextRemote]_vars

\* C28: a transaction that updateTransactionCategory or confirmTransaction has
\* confirmed keeps isUserConfirmed or isManuallyCategized, the confidence 1.0 and its
\* category through every later step that is not a correction or confirmation of
\* that same transaction, the push to and the sync from the remote table included.
C28_ConfirmedStateIsDurable ==
    [][\A k \in 1..Len(transactions) :
          (/\ isConfirmed(transactions[k])
           /\ transactions[k].confidence = 200
           /\ ~(/\ op' \in {"updateTransactionCategory", "confirmTransaction"}
                /\ input'.id = transactions[k].id))
          => \E n \in 1..Len(transactions') :
                /\ transactions'[n].id = transactions[k].id
                /\ isConfirmed(transactions'[n])
                /\ transactions'[n].confidence = 200
                /\ transactions'[n].category = transactions[k].category]_vars

====
